---------------------------- MODULE Spec2Model ----------------------------
(***************************************************************************)
(* A model of the gritto backend (TypeScript / Express over a document     *)
(* store): the goal-planning resources with their hour-budget and          *)
(* date-conflict checks, and the agent session workflow.                   *)
(*                                                                         *)
(* Every route handler is a sequence of store operations separated by      *)
(* `await`; a request occupies a slot of `reqs` and each action below is   *)
(* one such store operation together with the synchronous code that        *)
(* follows it up to the next `await`.  In the sequential specifications a  *)
(* request starts only when no other request is in flight; in the          *)
(* interleaved ones several requests advance in any order.                 *)
(***************************************************************************)
EXTENDS Integers, Sequences, FiniteSets, TLC

(***************************************************************************)
(* Bounds of the model.                                                    *)
(***************************************************************************)
MaxSlots == 2        \* request slots (requests in flight at once)
MaxSessions == 2     \* SessionState documents ever created
MaxPreviews == 2     \* GoalPreview documents with a generated id
MaxMessages == 4     \* ChatMessage documents ever appended
MaxIteration == 1    \* largest state.iteration the agent answers with
MaxAnswerFields == 1 \* optional fields present in one agent answer
MaxGoals == 2        \* Goal documents ever created
MaxMilestones == 2   \* Milestone documents ever created
MaxTasks == 2        \* Task documents ever created
MaxDay == 2          \* calendar days named in request bodies
MaxClock == 1        \* latest time of a direct call of upsertGoalPreview

(***************************************************************************)
(* Optional values: <<>> is an omitted (undefined or null) value, <<v>> a  *)
(* present one.  OrElse is the `??` operator.                              *)
(***************************************************************************)
None == <<>>

Some(v) == <<v>>

OrElse(o, d) == IF o # None THEN o[1] ELSE d

Opt(S) == {None} \cup {Some(v) : v \in S}

(***************************************************************************)
(* Identifiers.  The store generates document ids (Firestore `doc()`):     *)
(* sessions, chats, goals, milestones and tasks are numbered in creation   *)
(* order.  A GoalPreview id is either generated, <<"doc", n>>, or a string *)
(* the agent put in its payload, <<"agent", 0>>.                           *)
(***************************************************************************)
Users == {"u1", "u2"}

\* The users who open planning sessions; the other user addresses sessions
\* that are not theirs.
Planners == {"u1"}

Slots == 1..MaxSlots

SessionIds == 1..MaxSessions

GeneratedPreviewId(n) == <<"doc", n>>

AgentChosenPreviewId == <<"agent", 0>>

\* The empty string as a preview id.
EmptyPreviewId == <<"">>

VARIABLES
    users,          \* User collection: user id -> record
    goals,          \* Goal collection: sequence of records, id = index
    milestones,     \* Milestone collection: sequence of records, id = index
    tasks,          \* Task collection: sequence of records, id = index
    sessions,       \* SessionState collection: sequence of records, id = index
    updatedOrder,   \* session ids by updatedAt, least recently updated first
    chats,          \* Chat collection: sequence of records, id = index
    chatMessages,   \* ChatMessage collection in createdAt order
    previews,       \* GoalPreview collection: set of records
    reqs,           \* requests in flight: slot -> handler position and locals
    lastTurn        \* the response most recently sent (history variable)

vars == <<users, goals, milestones, tasks, sessions, updatedOrder, chats, chatMessages,
          previews, reqs, lastTurn>>

resources == <<users, goals, milestones, tasks>>

sessionStore == <<sessions, updatedOrder, chats, chatMessages, previews>>

Idle == [pc |-> "idle"]

NoTurn == [op |-> "none"]

InFlight == {r \in Slots : reqs[r].pc # "idle"}

\* The slot a new request takes: the lowest free one.
FreeSlot(r) == reqs[r].pc = "idle" /\ \A q \in Slots : q < r => reqs[q].pc # "idle"

\* seq = TRUE: requests are executed one at a time.
MayStart(seq, r) == FreeSlot(r) /\ (seq => InFlight = {})

\* createUser: availableHoursPerWeek of a user who has signed in.
DEFAULT_AVAILABLE_HOURS == 20

\* Every request carries a token issued at sign-in: the users exist.
Init ==
    /\ users = [u \in Users |->
                    [name |-> "", availableHoursPerWeek |-> DEFAULT_AVAILABLE_HOURS]]
    /\ goals = <<>>
    /\ milestones = <<>>
    /\ tasks = <<>>
    /\ sessions = <<>>
    /\ updatedOrder = <<>>
    /\ chats = <<>>
    /\ chatMessages = <<>>
    /\ previews = {}
    /\ reqs = [r \in Slots |-> Idle]
    /\ lastTurn = NoTurn

(***************************************************************************)
(* Goal and task repositories, as far as the context builder reads them.   *)
(***************************************************************************)
RECURSIVE SumHours(_, _, _, _)
SumHours(gs, i, userId, excludeGoalId) ==
    IF i > Len(gs) THEN 0
    ELSE (IF /\ gs[i].userId = userId
             /\ gs[i].status = "active"
             /\ Some(i) # excludeGoalId
          THEN gs[i].minHoursPerWeek ELSE 0)
         + SumHours(gs, i + 1, userId, excludeGoalId)

\* sumActiveGoalHours(userId, excludeGoalId?) over the Goal collection gs.
SumActiveGoalHours(gs, userId, excludeGoalId) == SumHours(gs, 1, userId, excludeGoalId)

\* listTasksByDateRange(userId, start, end): both ends included, as the
\* single-day query of GET /v1/tasks:query (start = end = day) needs.
ListTasksByDateRange(ts, userId, startDay, endDay) ==
    SelectSeq(ts, LAMBDA t : t.userId = userId /\ startDay <= t.date /\ t.date <= endDay)

\* Array.prototype.sort with a comparator on date: a stable sort.
RECURSIVE InsertByDate(_, _)
InsertByDate(sorted, t) ==
    IF sorted = <<>> THEN <<t>>
    ELSE IF sorted[Len(sorted)].date <= t.date THEN Append(sorted, t)
    ELSE Append(InsertByDate(SubSeq(sorted, 1, Len(sorted) - 1), t), sorted[Len(sorted)])

RECURSIVE SortByDate(_)
SortByDate(ts) ==
    IF ts = <<>> THEN <<>>
    ELSE InsertByDate(SortByDate(SubSeq(ts, 1, Len(ts) - 1)), ts[Len(ts)])

Max(a, b) == IF a >= b THEN a ELSE b

(***************************************************************************)
(* Context builder.                                                        *)
(***************************************************************************)
UPCOMING_DAYS == 7

Today == 1

\* A faulty variant of BuildUserContext without the clamp at zero; the
\* property of availableHoursLeft must tell it from the real one.
BuildUserContextUnclamped(userId) ==
    LET listed == ListTasksByDateRange(tasks, userId, Today, Today + UPCOMING_DAYS)
        upcomingTasks == SortByDate(SelectSeq(listed, LAMBDA t : ~t.done))
        activeGoalHours == SumActiveGoalHours(goals, userId, None)
    IN  [availableHoursLeft |-> users[userId].availableHoursPerWeek - activeGoalHours,
         upcomingTasks |-> upcomingTasks]

BuildUserContext(userId) ==
    LET startDay == Today
        endDay == Today + UPCOMING_DAYS
        listed == ListTasksByDateRange(tasks, userId, startDay, endDay)
        upcomingTasks == SortByDate(SelectSeq(listed, LAMBDA t : ~t.done))
        activeGoalHours == SumActiveGoalHours(goals, userId, None)
    IN  [availableHoursLeft |->
             Max(0, users[userId].availableHoursPerWeek - activeGoalHours),
         upcomingTasks |-> upcomingTasks]

\* Contexts a client may send as override, and the agent may answer with.
ClientContext == [availableHoursLeft |-> 1, upcomingTasks |-> <<>>]

AgentContext == [availableHoursLeft |-> 2, upcomingTasks |-> <<>>]

(***************************************************************************)
(* Session repository.                                                     *)
(***************************************************************************)
\* findSessionById: None when the document does not exist.
FindSessionById(id) ==
    IF id \in 1..Len(sessions) THEN Some(sessions[id]) ELSE None

\* updatedAt is refreshed: the session becomes the most recently updated one.
Touch(order, id) == Append(SelectSeq(order, LAMBDA s : s # id), id)

\* A faulty variant of FindLatestActiveSession that orders by updatedAt
\* ascending; the session:latest property must tell it from the real one.
FindOldestActiveSession(userId) ==
    LET active == SelectSeq(updatedOrder,
                     LAMBDA s : sessions[s].userId = userId /\ sessions[s].sessionActive)
    IN  IF active = <<>> THEN None
        ELSE Some(sessions[active[1]])

\* findLatestActiveSession: where userId and sessionActive, orderBy updatedAt
\* desc, limit 1.
FindLatestActiveSession(userId) ==
    LET active == SelectSeq(updatedOrder,
                     LAMBDA s : sessions[s].userId = userId /\ sessions[s].sessionActive)
    IN  IF active = <<>> THEN None
        ELSE Some(sessions[active[Len(active)]])

\* A faulty variant of NewSession that pairs a later session with the chat
\* container of the session before it; the pairing property must tell it
\* from the real one.
NewSessionSharingChat(id, userId, chatId, context) ==
    [id |-> id,
     userId |-> userId,
     chatId |-> IF chatId > 1 THEN chatId - 1 ELSE chatId,
     state |-> "plan_generated",
     iteration |-> 0,
     goalPreviewId |-> None,
     sessionActive |-> TRUE,
     context |-> context]

\* createSession: the record written for a new session paired with chat chatId.
NewSession(id, userId, chatId, context) ==
    [id |-> id,
     userId |-> userId,
     chatId |-> chatId,
     state |-> "plan_generated",
     iteration |-> 0,
     goalPreviewId |-> None,
     sessionActive |-> TRUE,
     context |-> context]

\* updateSession: only the fields that are not undefined are written.  A
\* field of `updates` is None (undefined) or Some(value).
UpdateSession(rec, updates) ==
    [rec EXCEPT
        !.state = OrElse(updates.state, @),
        !.iteration = OrElse(updates.iteration, @),
        !.goalPreviewId = OrElse(updates.goalPreviewId, @),
        !.sessionActive = OrElse(updates.sessionActive, @),
        !.context = OrElse(updates.context, @)]

\* appendChatMessage: the ChatMessage document added.
ChatMessage(chatId, sessionId, sender, message) ==
    [chatId |-> chatId, sessionId |-> sessionId, sender |-> sender, message |-> message]

\* listChatMessagesBySessionId: the transcript of a session, oldest first.
Transcript(sessionId) == SelectSeq(chatMessages, LAMBDA m : m.sessionId = sessionId)

(***************************************************************************)
(* GoalPreview repository.                                                 *)
(***************************************************************************)
PreviewIdsIn(ps) == {p.id : p \in ps}

GeneratedIn(ps) == {p \in ps : p.id[1] = "doc"}

PreviewById(ps, id) == CHOOSE p \in ps : p.id = id

\* `if (input.id)`: undefined and the empty string are no id.
HasPreviewId(input) == input.id # None /\ input.id # Some(EmptyPreviewId)

\* A faulty variant of UpsertGoalPreview that never updates in place; the
\* upsert property must tell it from the real one.
UpsertGoalPreviewAlwaysCreating(ps, input, now) ==
    LET id == GeneratedPreviewId(Cardinality(GeneratedIn(ps)) + 1)
        rec == [id |-> id, userId |-> input.userId,
                sessionId |-> input.sessionId, data |-> input.data,
                createdAt |-> now, updatedAt |-> now]
    IN  [previews |-> ps \cup {rec}, record |-> rec]

\* upsertGoalPreview: input.id is None or Some(id), now the time of the
\* call.  The result is the new collection and the record read back.
UpsertGoalPreview(ps, input, now) ==
    IF HasPreviewId(input)
    THEN LET id == input.id[1]
         IN  IF id \notin PreviewIdsIn(ps)
             THEN LET rec == [id |-> id, userId |-> input.userId,
                              sessionId |-> input.sessionId, data |-> input.data,
                              createdAt |-> now, updatedAt |-> now]
                  IN  [previews |-> ps \cup {rec}, record |-> rec]
             ELSE LET old == PreviewById(ps, id)
                      rec == [old EXCEPT !.data = input.data, !.updatedAt = now]
                  IN  [previews |-> (ps \ {old}) \cup {rec}, record |-> rec]
    ELSE LET id == GeneratedPreviewId(Cardinality(GeneratedIn(ps)) + 1)
             rec == [id |-> id, userId |-> input.userId,
                     sessionId |-> input.sessionId, data |-> input.data,
                     createdAt |-> now, updatedAt |-> now]
         IN  [previews |-> ps \cup {rec}, record |-> rec]

(***************************************************************************)
(* The agent gateway.  An outcome of the HTTP call is a network failure or *)
(* a response with a status and a body; invokeAgentService turns it into   *)
(* the parsed body or into the ApiError it throws.                         *)
(***************************************************************************)
AgentFailures ==
    {[kind |-> "network", status |-> 0]}
        \cup {[kind |-> "http", status |-> st] : st \in {400, 500, 503}}

InvokeAgentService(outcome) ==
    IF outcome.kind = "network"
    THEN [ok |-> FALSE, status |-> 503]
    ELSE IF ~(outcome.status >= 200 /\ outcome.status <= 299)
         THEN IF outcome.status = 503
              THEN [ok |-> FALSE, status |-> 503]
              ELSE [ok |-> FALSE, status |-> outcome.status]
         ELSE [ok |-> TRUE, status |-> outcome.status, data |-> outcome.body]

\* What the agent's action.payload may be: omitted, a plan object, or an
\* object that nests the plan in its goalPreview field.  A plan object has
\* an optional id and some content.
PlanObjects(ids) == [id : Opt(ids), content : {"plan"}]

EmptyObject == [id |-> None, content |-> "empty"]

Payloads(ids) ==
    {None}
        \cup {Some([goalPreview |-> None, self |-> o]) : o \in PlanObjects(ids)}
        \cup {Some([goalPreview |-> Some(o), self |-> EmptyObject]) : o \in PlanObjects(ids)}

\* The agent's successful answer
\*   {reply, action: {type, payload}, state: {state, iteration, sessionActive,
\*    goalPreviewId}, context}
\* is one JSON body.  No other request can read it, so its parts are drawn
\* where the handler first reads them: reply and action.type when the call
\* returns, action.payload at the preview upsert, state and context at the
\* session update.  Every field of `state`, and `context`, may be omitted
\* (or null); actionType "absent" is an answer with no action.
AgentActionTypes == {"save_preview", "finalize_goal", "none", "absent"}

AgentStates(stateIds) ==
    [state : Opt({"plan_iteration", "finalized"}),
     iteration : Opt(0..MaxIteration),
     sessionActive : Opt(BOOLEAN),
     goalPreviewId : Opt(stateIds),
     context : Opt({AgentContext})]

Present(a) ==
    Cardinality({f \in {"state", "iteration", "sessionActive", "goalPreviewId", "context"} :
                    a[f] # None})

\* The answers with at most k of the optional fields present.
AgentAnswers(k) == {a \in AgentStates({AgentChosenPreviewId}) : Present(a) <= k}

\* previewPayload = payload?.goalPreview ?? payload ?? {}
PreviewPayload(payload) ==
    IF payload = None THEN EmptyObject
    ELSE OrElse(payload[1].goalPreview, payload[1].self)

(***************************************************************************)
(* GET /v1/agent/goal/session:latest                                       *)
(***************************************************************************)
PendingCreates == Cardinality({r \in Slots : reqs[r].pc \in {"latestContext", "latestCreate"}})

LatestTurn(status, userId, sessionId) ==
    [op |-> "latest", status |-> status, userId |-> userId, sessionId |-> sessionId]

\* A faulty variant of LatestFind that starts the creation whether or not an
\* active session exists; the property of the creation race must tell it
\* from the real one.
LatestFindAlwaysCreating(seq, r, u) ==
    /\ MayStart(seq, r)
    /\ Len(sessions) + PendingCreates < MaxSessions
    /\ reqs' = [reqs EXCEPT ![r] =
                   [pc |-> "latestContext", op |-> "latest", userId |-> u]]
    /\ lastTurn' = NoTurn
    /\ UNCHANGED <<resources, sessions, updatedOrder, chats, chatMessages,
                   previews>>

\* findLatestActiveSession; an active session is returned as it is.
LatestFind(seq, r, u) ==
    /\ MayStart(seq, r)
    /\ LET found == FindLatestActiveSession(u)
       IN  IF found # None
           THEN /\ lastTurn' = LatestTurn(200, u, found[1].id)
                /\ UNCHANGED reqs
           ELSE /\ Len(sessions) + PendingCreates < MaxSessions
                /\ reqs' = [reqs EXCEPT ![r] =
                               [pc |-> "latestContext", op |-> "latest", userId |-> u]]
                /\ lastTurn' = NoTurn
    /\ UNCHANGED <<resources, sessions, updatedOrder, chats, chatMessages,
                   previews>>

\* findUserById and buildUserContext.
LatestContext(r) ==
    /\ reqs[r].pc = "latestContext"
    /\ reqs' = [reqs EXCEPT ![r] =
                   [pc |-> "latestCreate", op |-> "latest", userId |-> reqs[r].userId,
                    context |-> BuildUserContext(reqs[r].userId)]]
    /\ UNCHANGED <<resources, sessions, updatedOrder, chats, chatMessages,
                   previews, lastTurn>>

\* A faulty variant of LatestCreate that reopens a closed session of the user
\* in place when there is one; the property of the session created after a
\* closed one must tell it from the real one.
LatestCreateReopening(r) ==
    /\ reqs[r].pc = "latestCreate"
    /\ LET u == reqs[r].userId
           closed == {s \in 1..Len(sessions) :
                         sessions[s].userId = u /\ ~sessions[s].sessionActive}
           chatId == Len(chats) + 1
           id == IF closed = {} THEN Len(sessions) + 1 ELSE CHOOSE s \in closed : TRUE
       IN  IF closed = {}
           THEN /\ chats' = Append(chats, [id |-> chatId, userId |-> u])
                /\ sessions' = Append(sessions, NewSession(id, u, chatId, reqs[r].context))
                /\ updatedOrder' = Append(updatedOrder, id)
                /\ lastTurn' = LatestTurn(201, u, id)
           ELSE /\ chats' = chats
                /\ sessions' = [sessions EXCEPT ![id] =
                                   NewSession(id, u, @.chatId, reqs[r].context)]
                /\ updatedOrder' = Touch(updatedOrder, id)
                /\ lastTurn' = LatestTurn(201, u, id)
    /\ reqs' = [reqs EXCEPT ![r] = Idle]
    /\ UNCHANGED <<resources, chatMessages, previews>>

\* createSession: a Chat document, then the SessionState document.
LatestCreate(r) ==
    /\ reqs[r].pc = "latestCreate"
    /\ LET chatId == Len(chats) + 1
           id == Len(sessions) + 1
       IN  /\ chats' = Append(chats, [id |-> chatId, userId |-> reqs[r].userId])
           /\ sessions' = Append(sessions,
                                 NewSession(id, reqs[r].userId, chatId, reqs[r].context))
           /\ updatedOrder' = Append(updatedOrder, id)
           /\ lastTurn' = LatestTurn(201, reqs[r].userId, id)
    /\ reqs' = [reqs EXCEPT ![r] = Idle]
    /\ UNCHANGED <<resources, chatMessages, previews>>

(***************************************************************************)
(* POST /v1/agent/goal/session:message                                     *)
(***************************************************************************)
\* What a request body may carry as `context`.
NoOverride == [kind |-> "absent", value |-> ClientContext]

ContextOverrides ==
    {[kind |-> "absent", value |-> ClientContext],
     [kind |-> "string", value |-> ClientContext],
     [kind |-> "object", value |-> ClientContext]}

\* A faulty variant of MessageGuard without the check of sessionActive; the
\* properties of finalized sessions must tell it from the real one.
MessageGuardIgnoringActive(u, sessionId, message, payloadUserId) ==
    IF sessionId = None THEN 400
    ELSE IF message = "" THEN 400
    ELSE IF payloadUserId # None /\ payloadUserId # Some(u) THEN 401
    ELSE LET session == FindSessionById(sessionId[1])
         IN  IF session = None THEN 400
             ELSE IF session[1].userId # u THEN 401
             ELSE 200

\* A faulty variant of MessageGuard that does not compare the session's
\* owner with the caller; the isolation property must tell it from the real
\* one.
MessageGuardIgnoringOwner(u, sessionId, message, payloadUserId) ==
    IF sessionId = None THEN 400
    ELSE IF message = "" THEN 400
    ELSE IF payloadUserId # None /\ payloadUserId # Some(u) THEN 401
    ELSE LET session == FindSessionById(sessionId[1])
         IN  IF session = None THEN 400
             ELSE IF ~session[1].sessionActive THEN 409
             ELSE 200

\* A faulty variant of MessageGuard that checks sessionActive before the
\* owner; the property of the error outcomes must tell it from the real one.
MessageGuardActiveFirst(u, sessionId, message, payloadUserId) ==
    IF sessionId = None THEN 400
    ELSE IF message = "" THEN 400
    ELSE IF payloadUserId # None /\ payloadUserId # Some(u) THEN 401
    ELSE LET session == FindSessionById(sessionId[1])
         IN  IF session = None THEN 400
             ELSE IF ~session[1].sessionActive THEN 409
             ELSE IF session[1].userId # u THEN 401
             ELSE 200

\* The checks before the first write, in the order of the code: the status
\* of the error thrown, or 200 when the request passes them all.
MessageGuard(u, sessionId, message, payloadUserId) ==
    IF sessionId = None THEN 400
    ELSE IF message = "" THEN 400
    ELSE IF payloadUserId # None /\ payloadUserId # Some(u) THEN 401
    ELSE LET session == FindSessionById(sessionId[1])
         IN  IF session = None THEN 400
             ELSE IF session[1].userId # u THEN 401
             ELSE IF ~session[1].sessionActive THEN 409
             ELSE 200

\* context = contextOverride && typeof contextOverride === 'object'
\*              ? contextOverride : session.context ?? {}
EffectiveContext(override, session) ==
    IF override.kind = "object" THEN override.value ELSE session.context

\* Chat messages the requests in flight may still append.
PendingMessages ==
    2 * Cardinality({r \in Slots : reqs[r].pc \in {"appendUser", "agent", "appendAgent"}})

\* save_preview turns in flight that have not written their preview yet.
PendingSaves ==
    Cardinality({r \in Slots : reqs[r].pc \in {"appendAgent", "upsert"}
                                /\ reqs[r].actionType = "save_preview"})

\* The response of a session:message request that a check before the first
\* write rejected; sessionId is the optional one of the body.
GuardTurn(status, userId, sessionId) ==
    [op |-> "message", phase |-> "guard", status |-> status, userId |-> userId,
     sessionId |-> sessionId]

\* The response of the request in slot r whose agent call failed, with the
\* session it loaded and the transcript and previews it started from.
AgentFailedTurn(status, r) ==
    [op |-> "message", phase |-> "agent", status |-> status,
     userId |-> reqs[r].userId, sessionId |-> reqs[r].session.id,
     message |-> reqs[r].input.message, prior |-> reqs[r].session,
     pre |-> reqs[r].pre]

\* The response of the request in slot r that completed its turn, with the
\* session it loaded, the context it sent, the agent's answer and the id of
\* the preview it wrote.
DoneTurn(r, answer) ==
    [op |-> "message", phase |-> "done", status |-> 200,
     userId |-> reqs[r].userId, sessionId |-> reqs[r].session.id,
     prior |-> reqs[r].session, override |-> reqs[r].input.override.kind,
     context |-> reqs[r].context, actionType |-> reqs[r].actionType,
     answer |-> answer, upserted |-> reqs[r].upserted]

MessageLoad(seq, r, u, sessionId, message, payloadUserId, override) ==
    /\ MayStart(seq, r)
    /\ LET status == MessageGuard(u, sessionId, message, payloadUserId)
           input == [message |-> message, payloadUserId |-> payloadUserId,
                     override |-> override]
       IN  IF status # 200
           THEN /\ lastTurn' = GuardTurn(status, u, sessionId)
                /\ UNCHANGED reqs
           ELSE LET session == sessions[sessionId[1]]
                IN  /\ Len(chatMessages) + PendingMessages + 2 <= MaxMessages
                    /\ reqs' = [reqs EXCEPT ![r] =
                           [pc |-> "appendUser", op |-> "message", userId |-> u,
                            session |-> session, input |-> input,
                            context |-> EffectiveContext(override, session),
                            pre |-> [transcript |-> Transcript(session.id),
                                     previews |-> previews],
                            reply |-> "", actionType |-> "", upserted |-> None]]
                    /\ lastTurn' = NoTurn
    /\ UNCHANGED <<resources, sessions, updatedOrder, chats, chatMessages,
                   previews>>

\* A faulty variant of MessageAppendUser that puts the message at the head
\* of the log; the transcript property must tell it from the real one.
MessageAppendUserAtHead(r) ==
    /\ reqs[r].pc = "appendUser"
    /\ chatMessages' = <<ChatMessage(reqs[r].session.chatId, reqs[r].session.id,
                                     "user", reqs[r].input.message)>> \o chatMessages
    /\ updatedOrder' = Touch(updatedOrder, reqs[r].session.id)
    /\ reqs' = [reqs EXCEPT ![r].pc = "agent"]
    /\ UNCHANGED <<resources, sessions, chats, previews, lastTurn>>

\* appendChatMessage(sender: 'user')
MessageAppendUser(r) ==
    /\ reqs[r].pc = "appendUser"
    /\ chatMessages' = Append(chatMessages,
           ChatMessage(reqs[r].session.chatId, reqs[r].session.id, "user",
                       reqs[r].input.message))
    /\ updatedOrder' = Touch(updatedOrder, reqs[r].session.id)
    /\ reqs' = [reqs EXCEPT ![r].pc = "agent"]
    /\ UNCHANGED <<resources, sessions, chats, previews, lastTurn>>

\* A faulty variant of MessageAgentFails that records the failure in the
\* transcript as an agent message; the failed-turn property must tell it
\* from the real one.
MessageAgentFailsLoggingReply(r) ==
    /\ reqs[r].pc = "agent"
    /\ \E outcome \in AgentFailures :
          LET result == InvokeAgentService(outcome)
          IN  /\ ~result.ok
              /\ lastTurn' = AgentFailedTurn(result.status, r)
    /\ chatMessages' = Append(chatMessages,
           ChatMessage(reqs[r].session.chatId, reqs[r].session.id, "agent", "error"))
    /\ reqs' = [reqs EXCEPT ![r] = Idle]
    /\ UNCHANGED <<resources, sessions, updatedOrder, chats, previews>>

\* A faulty variant of MessageAgentFails that calls the agent once more
\* after the first failure; the no-retry property must tell it from the
\* real one.
MessageAgentFailsRetrying(r) ==
    /\ reqs[r].pc = "agent"
    /\ \E outcome \in AgentFailures :
          LET result == InvokeAgentService(outcome)
          IN  /\ ~result.ok
              /\ IF reqs[r].reply = ""
                 THEN /\ reqs' = [reqs EXCEPT ![r].reply = "retrying"]
                      /\ UNCHANGED lastTurn
                 ELSE /\ lastTurn' = AgentFailedTurn(result.status, r)
                      /\ reqs' = [reqs EXCEPT ![r] = Idle]
    /\ UNCHANGED <<resources, sessions, updatedOrder, chats, chatMessages,
                   previews>>

\* invokeAgentService fails: the error ends the request.
MessageAgentFails(r) ==
    /\ reqs[r].pc = "agent"
    /\ \E outcome \in AgentFailures :
          LET result == InvokeAgentService(outcome)
          IN  /\ ~result.ok
              /\ lastTurn' = AgentFailedTurn(result.status, r)
    /\ reqs' = [reqs EXCEPT ![r] = Idle]
    /\ UNCHANGED <<resources, sessions, updatedOrder, chats, chatMessages,
                   previews>>

\* invokeAgentService returns the agent's answer.
MessageAgentAnswers(r) ==
    /\ reqs[r].pc = "agent"
    /\ \E actionType \in AgentActionTypes :
          LET result == InvokeAgentService(
                  [kind |-> "http", status |-> 200,
                   body |-> [reply |-> "reply", actionType |-> actionType]])
          IN  /\ result.ok
              /\ actionType = "save_preview" =>
                    Cardinality(GeneratedIn(previews)) + PendingSaves < MaxPreviews
              /\ reqs' = [reqs EXCEPT ![r].pc = "appendAgent",
                                      ![r].reply = result.data.reply,
                                      ![r].actionType = result.data.actionType]
    /\ UNCHANGED <<resources, sessions, updatedOrder, chats, chatMessages,
                   previews, lastTurn>>

\* A faulty variant of MessageAppendAgent that goes on to the preview upsert
\* whatever the action type; the preview-frame property must tell it from
\* the real one.
MessageAppendAgentAlwaysSaving(r) ==
    /\ reqs[r].pc = "appendAgent"
    /\ chatMessages' = Append(chatMessages,
           ChatMessage(reqs[r].session.chatId, reqs[r].session.id, "agent",
                       reqs[r].reply))
    /\ updatedOrder' = Touch(updatedOrder, reqs[r].session.id)
    /\ reqs' = [reqs EXCEPT ![r].pc = "upsert"]
    /\ UNCHANGED <<resources, sessions, chats, previews, lastTurn>>

\* A faulty variant of MessageAppendAgent that leaves the agent's reply out
\* of the log, as a handler that appended it after the session update would
\* on a failed update; the write-order property must tell it from the real
\* one.
MessageAppendAgentDeferred(r) ==
    /\ reqs[r].pc = "appendAgent"
    /\ chatMessages' = chatMessages
    /\ updatedOrder' = Touch(updatedOrder, reqs[r].session.id)
    /\ reqs' = [reqs EXCEPT ![r].pc =
                   IF reqs[r].actionType = "save_preview" THEN "upsert" ELSE "update"]
    /\ UNCHANGED <<resources, sessions, chats, previews, lastTurn>>

\* appendChatMessage(sender: 'agent')
MessageAppendAgent(r) ==
    /\ reqs[r].pc = "appendAgent"
    /\ chatMessages' = Append(chatMessages,
           ChatMessage(reqs[r].session.chatId, reqs[r].session.id, "agent",
                       reqs[r].reply))
    /\ updatedOrder' = Touch(updatedOrder, reqs[r].session.id)
    /\ reqs' = [reqs EXCEPT ![r].pc =
                   IF reqs[r].actionType = "save_preview" THEN "upsert" ELSE "update"]
    /\ UNCHANGED <<resources, sessions, chats, previews, lastTurn>>

\* new Date() in the session workflow: time does not run backwards, and is
\* counted in chat messages written so far.
Clock == Len(chatMessages)

\* upsertGoalPreview for a save_preview action.
MessageUpsertPreview(r, withIds) ==
    /\ reqs[r].pc = "upsert"
    /\ \E payload \in IF withIds
                      THEN Payloads(PreviewIdsIn(previews) \cup {AgentChosenPreviewId})
                      ELSE {None} :
          LET previewPayload == PreviewPayload(payload)
              up == UpsertGoalPreview(previews,
                       [id |-> previewPayload.id, userId |-> reqs[r].userId,
                        sessionId |-> reqs[r].session.id, data |-> previewPayload],
                       Clock)
          IN  /\ previews' = up.previews
              /\ reqs' = [reqs EXCEPT ![r].pc = "update",
                                      ![r].upserted = Some(up.record.id)]
    /\ UNCHANGED <<resources, sessions, updatedOrder, chats, chatMessages,
                   lastTurn>>

\* A faulty variant of SessionUpdates without the finalize_goal override;
\* the finalize-override property must tell it from the real one.
SessionUpdatesWithoutOverride(session, context, actionType, answer, upserted) ==
    LET goalPreviewId == IF upserted # None THEN upserted ELSE session.goalPreviewId
        sessionActive == OrElse(answer.sessionActive, session.sessionActive)
    IN  [state |-> Some(OrElse(answer.state, session.state)),
         iteration |-> Some(OrElse(answer.iteration, session.iteration + 1)),
         goalPreviewId |-> Some(IF answer.goalPreviewId # None
                                THEN answer.goalPreviewId ELSE goalPreviewId),
         sessionActive |-> Some(sessionActive),
         context |-> Some(OrElse(answer.context, context))]

\* A faulty variant of SessionUpdates in which an omitted state falls back
\* to the initial state; the field-fallback property must tell it from the
\* real one.
SessionUpdatesResettingState(session, context, actionType, answer, upserted) ==
    LET goalPreviewId == IF upserted # None THEN upserted ELSE session.goalPreviewId
        sessionActive == IF actionType = "finalize_goal" THEN FALSE
                         ELSE OrElse(answer.sessionActive, session.sessionActive)
    IN  [state |-> Some(OrElse(answer.state, "plan_generated")),
         iteration |-> Some(OrElse(answer.iteration, session.iteration + 1)),
         goalPreviewId |-> Some(IF answer.goalPreviewId # None
                                THEN answer.goalPreviewId ELSE goalPreviewId),
         sessionActive |-> Some(sessionActive),
         context |-> Some(OrElse(answer.context, context))]

\* A faulty variant of SessionUpdates in which an omitted iteration keeps the
\* loaded one; the stale-read property must tell it from the real one.
SessionUpdatesKeepingIteration(session, context, actionType, answer, upserted) ==
    LET goalPreviewId == IF upserted # None THEN upserted ELSE session.goalPreviewId
        sessionActive == IF actionType = "finalize_goal" THEN FALSE
                         ELSE OrElse(answer.sessionActive, session.sessionActive)
    IN  [state |-> Some(OrElse(answer.state, session.state)),
         iteration |-> Some(OrElse(answer.iteration, session.iteration)),
         goalPreviewId |-> Some(IF answer.goalPreviewId # None
                                THEN answer.goalPreviewId ELSE goalPreviewId),
         sessionActive |-> Some(sessionActive),
         context |-> Some(OrElse(answer.context, context))]

\* The fields handed to updateSession.  session is the record the request
\* loaded, context the context it sent to the agent, upserted the id of the
\* preview it wrote (None when it wrote none), answer the agent's state and
\* context.
SessionUpdates(session, context, actionType, answer, upserted) ==
    LET goalPreviewId == IF upserted # None THEN upserted ELSE session.goalPreviewId
        sessionActive == IF actionType = "finalize_goal" THEN FALSE
                         ELSE OrElse(answer.sessionActive, session.sessionActive)
    IN  [state |-> Some(OrElse(answer.state, session.state)),
         iteration |-> Some(OrElse(answer.iteration, session.iteration + 1)),
         goalPreviewId |-> Some(IF answer.goalPreviewId # None
                                THEN answer.goalPreviewId ELSE goalPreviewId),
         sessionActive |-> Some(sessionActive),
         context |-> Some(OrElse(answer.context, context))]

\* updateSession, and the response.
MessageUpdateSession(r, answers) ==
    /\ reqs[r].pc = "update"
    /\ \E answer \in answers :
          LET id == reqs[r].session.id
              updated == UpdateSession(sessions[id],
                             SessionUpdates(reqs[r].session, reqs[r].context,
                                            reqs[r].actionType, answer,
                                            reqs[r].upserted))
          IN  /\ sessions' = [sessions EXCEPT ![id] = updated]
              /\ updatedOrder' = Touch(updatedOrder, id)
              /\ lastTurn' = DoneTurn(r, answer)
    /\ reqs' = [reqs EXCEPT ![r] = Idle]
    /\ UNCHANGED <<resources, chats, chatMessages, previews>>

(***************************************************************************)
(* Specifications of the session workflow.                                 *)
(***************************************************************************)
\* Request bodies of session:message: well-formed ones for every session id
\* (of an existing session or not), and the malformed ones.
PlainBodies ==
    [sessionId : {Some(i) : i \in SessionIds}, message : {"hello"},
     payloadUserId : {None}, override : {NoOverride}]

MessageBodies ==
    [sessionId : {Some(i) : i \in SessionIds}, message : {"hello"},
     payloadUserId : {None}, override : ContextOverrides]
        \cup [sessionId : {None}, message : {"hello"},
              payloadUserId : {None}, override : {NoOverride}]
        \cup [sessionId : {Some(1)}, message : {""},
              payloadUserId : {None}, override : {NoOverride}]
        \cup [sessionId : {Some(1)}, message : {"hello"},
              payloadUserId : {Some(u) : u \in Users}, override : {NoOverride}]

SessionStart(seq, callers, bodies) ==
    \E r \in Slots, u \in callers :
        \/ (u \in Planners /\ LatestFind(seq, r, u))
        \/ \E b \in bodies :
                MessageLoad(seq, r, u, b.sessionId, b.message, b.payloadUserId, b.override)

SessionStep(withIds, answers) ==
    \E r \in Slots :
        \/ LatestContext(r)
        \/ LatestCreate(r)
        \/ MessageAppendUser(r)
        \/ MessageAgentFails(r)
        \/ MessageAgentAnswers(r)
        \/ MessageAppendAgent(r)
        \/ MessageUpsertPreview(r, withIds)
        \/ MessageUpdateSession(r, answers)

\* Requests executed one at a time, with every body and every answer.
SessionNext ==
    \/ SessionStart(TRUE, Users, MessageBodies)
    \/ SessionStep(TRUE, AgentAnswers(MaxAnswerFields))

SessionSpec == Init /\ [][SessionNext]_vars

\* Requests of one user interleaved at store-operation granularity.
SessionRaceNext ==
    \/ SessionStart(FALSE, Planners, PlainBodies)
    \/ SessionStep(FALSE, AgentAnswers(MaxAnswerFields))

SessionRaceSpec == Init /\ [][SessionRaceNext]_vars

(***************************************************************************)
(* Properties of the session workflow.                                     *)
(***************************************************************************)
MessagePcs == {"appendUser", "agent", "appendAgent", "upsert", "update"}

\* The session:message requests in flight on session s.
MessagesInFlight(s) ==
    {r \in Slots : reqs[r].pc \in MessagePcs /\ reqs[r].session.id = s}

\* No request in flight holds a copy of session s that it loaded while the
\* session was active.
NoStaleActiveRead(s) == \A r \in MessagesInFlight(s) : ~reqs[r].session.sessionActive

\* C3 as the specification states it: for any interleaving of
\* session:message and session:latest requests, a session whose sessionActive
\* is false never has it true again.
C3_PermanentInAnyInterleaving ==
    [][\A s \in 1..Len(sessions) :
          ~sessions[s].sessionActive => ~sessions'[s].sessionActive]_vars

\* C3 (finalization is permanent), as the code has it: for any interleaving
\* of session:message and session:latest requests, a session whose
\* sessionActive is false keeps it false at every step taken while no
\* session:message request is in flight that loaded the session when it was
\* still active; with requests executed one at a time that is every step.
C3_PermanentOnceNoStaleRead ==
    [][\A s \in 1..Len(sessions) :
          ~sessions[s].sessionActive /\ NoStaleActiveRead(s)
              => ~sessions'[s].sessionActive]_vars

\* A session on which two turns were completed is inactive and has refused
\* a message with 409, and a later session exists.
C3_Witness ==
    /\ lastTurn.op = "message"
    /\ lastTurn.phase = "guard"
    /\ lastTurn.status = 409
    /\ lastTurn.sessionId = Some(1)
    /\ ~sessions[1].sessionActive
    /\ sessions[1].iteration >= 2
    /\ Len(sessions) = 2

\* The last response is that of a completed turn; in the specification with
\* requests executed one at a time the session the turn persisted is then
\* the stored one.
TurnDone == lastTurn.op = "message" /\ lastTurn.phase = "done"

TurnFailed == lastTurn.op = "message" /\ lastTurn.phase = "agent"

TurnRefused(status) ==
    lastTurn.op = "message" /\ lastTurn.phase = "guard" /\ lastTurn.status = status

Persisted == sessions[lastTurn.sessionId]

\* The well-formed bodies a user may post to session s.
WellFormedBodies(u, s) ==
    {b \in MessageBodies : /\ b.sessionId = Some(s)
                           /\ b.message # ""
                           /\ b.payloadUserId \in {None, Some(u)}}

\* C4 as the specification states it: in every reachable state a session
\* whose state is 'finalized' has sessionActive = false, and every message
\* its owner posts to it is rejected with 409.
C4_FinalizedIsInactive ==
    \A s \in 1..Len(sessions) :
        sessions[s].state = "finalized"
            => /\ ~sessions[s].sessionActive
               /\ \A b \in WellFormedBodies(sessions[s].userId, s) :
                     MessageGuard(sessions[s].userId, b.sessionId, b.message,
                                  b.payloadUserId) = 409

\* C5 as the specification states it: the iteration a completed turn
\* persists is at least the iteration the session had before the turn,
\* whatever state.iteration the agent returned or omitted.
C5_IterationNeverDecreases ==
    TurnDone => Persisted.iteration >= lastTurn.prior.iteration

\* C6 (finalize override).  A completed turn whose agent action.type is
\* 'finalize_goal' persists sessionActive = false, whatever
\* state.sessionActive and state.state the agent returned.
C6_FinalizeOverride ==
    TurnDone /\ lastTurn.actionType = "finalize_goal" => ~Persisted.sessionActive

\* A finalize_goal turn whose answer carried state.sessionActive = true has
\* completed.
C6_Witness ==
    /\ TurnDone
    /\ lastTurn.actionType = "finalize_goal"
    /\ lastTurn.answer.sessionActive = Some(TRUE)
    /\ ~Persisted.sessionActive

\* The guard answers 409 to every well-formed message of the owner of an
\* inactive session.
GuardRefusesInactive ==
    \A s \in 1..Len(sessions) :
        ~sessions[s].sessionActive
            => \A b \in WellFormedBodies(sessions[s].userId, s) :
                  MessageGuard(sessions[s].userId, b.sessionId, b.message,
                               b.payloadUserId) = 409

\* C7 (terminal-state guard).  A session:message request on a session whose
\* sessionActive is false at load time is answered 409; no request goes
\* past the guard on such a session (so no message is appended and the agent
\* is not invoked); and the step that refuses a request changes nothing: no
\* chat message, no preview, no session record, no request in flight.
C7_TerminalStateGuard ==
    [][/\ GuardRefusesInactive
       /\ GuardRefusesInactive'
       /\ \A r \in Slots :
             reqs[r].pc = "idle" /\ reqs'[r].pc \in MessagePcs
                 => sessions[reqs'[r].session.id].sessionActive
       /\ lastTurn' # lastTurn /\ lastTurn'.op = "message" /\ lastTurn'.phase = "guard"
             => UNCHANGED <<resources, sessionStore, reqs>>]_vars

\* An inactive session that holds a transcript has refused a message of its
\* owner with 409.
C7_Witness ==
    /\ TurnRefused(409)
    /\ ~sessions[lastTurn.sessionId[1]].sessionActive
    /\ lastTurn.userId = sessions[lastTurn.sessionId[1]].userId
    /\ Transcript(lastTurn.sessionId[1]) # <<>>

\* C8 (failed agent turn).  When the agent call of a request fails, the
\* transcript of the session is the one the request started from plus the
\* user's message, the previews are the ones it started from, and the
\* session record (state, iteration, goalPreviewId, sessionActive, context)
\* is the one the request loaded.
C8_FailedTurn ==
    TurnFailed =>
        /\ Transcript(lastTurn.sessionId)
               = Append(lastTurn.pre.transcript,
                        ChatMessage(lastTurn.prior.chatId, lastTurn.sessionId,
                                    "user", lastTurn.message))
        /\ previews = lastTurn.pre.previews
        /\ Persisted = lastTurn.prior

\* The agent call has failed with an upstream 500 on a session that already
\* had a completed turn and a saved preview.
C8_Witness ==
    /\ TurnFailed
    /\ lastTurn.status = 500
    /\ Len(lastTurn.pre.transcript) = 2
    /\ lastTurn.pre.previews # {}
    /\ Persisted.goalPreviewId # None

\* C9 as the specification states it: after a completed turn whose agent
\* action.type is 'save_preview', the persisted goalPreviewId is the id of
\* the GoalPreview the turn upserted, also when the answer carries a
\* state.goalPreviewId.
C9_SavePreviewSetsId ==
    TurnDone /\ lastTurn.actionType = "save_preview"
        => Persisted.goalPreviewId = lastTurn.upserted

\* The fallbacks of state, iteration, goalPreviewId and sessionActive of the
\* last completed turn.
FallbackOfStateFields ==
    /\ lastTurn.answer.state = None => Persisted.state = lastTurn.prior.state
    /\ lastTurn.answer.iteration = None
           => Persisted.iteration = lastTurn.prior.iteration + 1
    /\ lastTurn.answer.goalPreviewId = None /\ lastTurn.actionType # "save_preview"
           => Persisted.goalPreviewId = lastTurn.prior.goalPreviewId
    /\ lastTurn.answer.sessionActive = None /\ lastTurn.actionType # "finalize_goal"
           => Persisted.sessionActive = lastTurn.prior.sessionActive

\* C10 as the specification states it: every field the agent omits keeps the
\* value the session had before the turn (iteration: that value + 1),
\* context included.
C10_FallbackToPrior ==
    TurnDone =>
        /\ FallbackOfStateFields
        /\ lastTurn.answer.context = None => Persisted.context = lastTurn.prior.context

\* C10 (field fallback), as the code has it: an omitted state, goalPreviewId
\* (no preview saved) or sessionActive (action not finalize_goal) keeps the
\* value the session had before the turn and an omitted iteration becomes
\* that value + 1; an omitted context keeps the prior context only when the
\* request body carried no context object, and otherwise becomes the context
\* of the request body.
C10_FallbackToPriorOrRequest ==
    TurnDone =>
        /\ FallbackOfStateFields
        /\ lastTurn.answer.context = None
               => Persisted.context = IF lastTurn.override = "object"
                                      THEN ClientContext
                                      ELSE lastTurn.prior.context

\* A turn has completed on a session whose context an earlier turn had set,
\* with a context object in the request body and an answer that omits every
\* optional field.
C10_Witness ==
    /\ TurnDone
    /\ lastTurn.override = "object"
    /\ Present(lastTurn.answer) = 0
    /\ lastTurn.prior.iteration = 1
    /\ lastTurn.prior.context = AgentContext
    /\ Persisted.context = ClientContext
    /\ Persisted.iteration = lastTurn.prior.iteration + 1

\* C11 (preview frame).  The GoalPreview collection changes only in the
\* upsert step of a session:message request whose agent action.type is
\* 'save_preview'; while a request whose action.type is 'finalize_goal',
\* 'none' or missing is in flight, the collection is the one the request
\* found when it started, up to and including its last step.
C11_PreviewFrame ==
    [][/\ previews' # previews
             => \E r \in Slots : /\ reqs[r].pc = "upsert"
                                 /\ reqs[r].actionType = "save_preview"
                                 /\ reqs'[r].pc = "update"
       /\ \A r \in Slots :
             reqs[r].pc \in MessagePcs /\ reqs[r].actionType # "save_preview"
                 => previews = reqs[r].pre.previews /\ previews' = previews]_vars

\* A finalize_goal turn has completed on a session for which a preview had
\* been saved by an earlier turn.
C11_Witness ==
    /\ TurnDone
    /\ lastTurn.actionType = "finalize_goal"
    /\ lastTurn.prior.goalPreviewId # None
    /\ \E p \in previews : p.sessionId = lastTurn.sessionId

IsPrefix(s, t) == Len(s) <= Len(t) /\ SubSeq(t, 1, Len(s)) = s

ActiveSessionsOf(u) ==
    {s \in 1..Len(sessions) : sessions[s].userId = u /\ sessions[s].sessionActive}

UpdateRank(s) == CHOOSE i \in 1..Len(updatedOrder) : updatedOrder[i] = s

\* C14 (GET session:latest), with requests interleaved.  A request that
\* finds an active session of the user answers 200 with the one updated
\* most recently, changes nothing, and would find the same session again.  A
\* request starts the creation only when the user has no active session;
\* its last step adds exactly one chat container and exactly one session,
\* paired with it, with state plan_generated, iteration 0, sessionActive
\* true, no goalPreviewId and the context of the Context Builder, and
\* answers 201.  Nothing else adds a session or a chat container.
C14_SessionLatest ==
    [][/\ \A u \in Users, s \in SessionIds :
             lastTurn' # lastTurn /\ lastTurn' = LatestTurn(200, u, s)
                => /\ s \in ActiveSessionsOf(u)
                   /\ \A t \in ActiveSessionsOf(u) : UpdateRank(t) <= UpdateRank(s)
                   /\ UNCHANGED <<resources, sessionStore, reqs>>
                   /\ FindLatestActiveSession(u)' = Some(sessions[s])
       /\ \A r \in Slots :
             /\ reqs[r].pc = "idle" /\ reqs'[r].pc = "latestContext"
                   => ActiveSessionsOf(reqs'[r].userId) = {} /\ UNCHANGED sessionStore
             /\ reqs[r].pc = "latestCreate" /\ reqs'[r] # reqs[r]
                   => LET u == reqs[r].userId
                          id == Len(sessions) + 1
                          chatId == Len(chats) + 1
                      IN  /\ chats' = Append(chats, [id |-> chatId, userId |-> u])
                          /\ sessions' = Append(sessions,
                                [id |-> id, userId |-> u, chatId |-> chatId,
                                 state |-> "plan_generated", iteration |-> 0,
                                 goalPreviewId |-> None, sessionActive |-> TRUE,
                                 context |-> BuildUserContext(u)])
                          /\ lastTurn' = LatestTurn(201, u, id)
                          /\ UNCHANGED <<resources, chatMessages, previews>>
       /\ (Len(sessions') # Len(sessions) \/ chats' # chats)
             => \E r \in Slots : reqs[r].pc = "latestCreate" /\ reqs'[r].pc = "idle"]_vars

\* Two active sessions of one user exist, the older one was updated last,
\* and session:latest has answered with it.
C14_Witness ==
    /\ lastTurn = LatestTurn(200, "u1", 1)
    /\ ActiveSessionsOf("u1") = {1, 2}
    /\ updatedOrder = <<2, 1>>

\* C20 as the specification states it: a failed agent call, whether a
\* network failure or a non-success HTTP response of any status, is answered
\* to the caller of session:message with 503.
C20_AgentFailureIs503 ==
    TurnFailed => lastTurn.status = 503

\* C21 (session:message error outcomes).  In every state, a well-formed
\* message of user u for session id s is answered 400 when no session s
\* exists, else 401 when session s belongs to another user (whether it is
\* active or not), else 409 when it is inactive, and passes otherwise; a
\* network failure of the agent call is answered 503; and a 409 that was
\* sent names an inactive session of the caller.
C21_ErrorOutcomes ==
    /\ \A u \in Users, s \in SessionIds :
          MessageGuard(u, Some(s), "hello", None)
              = IF s \notin 1..Len(sessions) THEN 400
                ELSE IF sessions[s].userId # u THEN 401
                ELSE IF ~sessions[s].sessionActive THEN 409
                ELSE 200
    /\ InvokeAgentService([kind |-> "network", status |-> 0])
           = [ok |-> FALSE, status |-> 503]
    /\ TurnRefused(409)
           => /\ sessions[lastTurn.sessionId[1]].userId = lastTurn.userId
              /\ ~sessions[lastTurn.sessionId[1]].sessionActive

\* Another user has posted to a finalized session and got 401.
C21_Witness ==
    /\ lastTurn = GuardTurn(401, "u2", Some(1))
    /\ Len(sessions) >= 1
    /\ sessions[1].userId = "u1"
    /\ ~sessions[1].sessionActive
    /\ sessions[1].state = "finalized"

\* C24: a session:message turn on session S by user U creates or modifies only
\* GoalPreview records whose sessionId is S and whose userId is U, and leaves
\* every preview of another session or another user as it was, whatever id
\* the agent payload carries.
C24_PreviewOwnership ==
    [][\A r \in Slots :
          (reqs[r].pc = "upsert" /\ reqs'[r].pc = "update")
              => /\ \A p \in previews' \ previews :
                        /\ p.sessionId = reqs[r].session.id
                        /\ p.userId = reqs[r].userId
                 /\ \A p \in previews :
                        (p.sessionId # reqs[r].session.id \/ p.userId # reqs[r].userId)
                            => p \in previews']_vars

\* The position of a step in the handler of session:message.
PcRank(pc) ==
    CASE pc = "appendUser" -> 1
      [] pc = "agent" -> 2
      [] pc = "appendAgent" -> 3
      [] pc = "upsert" -> 4
      [] pc = "update" -> 5

\* C26 (no internal retries).  Every step of a session:message request moves
\* it forward in its handler or ends it, so the agent is invoked at most once
\* and each of the two transcript appends is performed at most once per
\* request: the log grows by the user message in the first append, by the
\* agent reply in the second and in no other step; a failed agent call ends
\* the request at once with an error and without a further write.
C26_NoRetries ==
    [][\A r \in Slots :
          (reqs[r].pc \in MessagePcs /\ reqs'[r] # reqs[r])
              => /\ \/ reqs'[r] = Idle
                    \/ /\ reqs'[r].pc \in MessagePcs
                       /\ PcRank(reqs'[r].pc) > PcRank(reqs[r].pc)
                       /\ reqs'[r].session = reqs[r].session
                       /\ reqs'[r].input = reqs[r].input
                 /\ chatMessages' =
                       IF reqs[r].pc = "appendUser"
                       THEN Append(chatMessages,
                                ChatMessage(reqs[r].session.chatId, reqs[r].session.id,
                                            "user", reqs[r].input.message))
                       ELSE IF reqs[r].pc = "appendAgent"
                       THEN Append(chatMessages,
                                ChatMessage(reqs[r].session.chatId, reqs[r].session.id,
                                            "agent", reqs[r].reply))
                       ELSE chatMessages
                 /\ reqs[r].pc = "agent"
                       => \/ reqs'[r].pc = "appendAgent" /\ lastTurn' = lastTurn
                          \/ /\ reqs'[r] = Idle
                             /\ lastTurn'.op = "message"
                             /\ lastTurn'.phase = "agent"
                             /\ lastTurn'.status >= 400
                             /\ sessions' = sessions
                             /\ previews' = previews]_vars

\* A request whose agent call failed has ended, after an earlier turn of the
\* session that completed: the log holds the one user message of the failed
\* request after the two messages of the completed one.
C26_Witness ==
    /\ lastTurn.op = "message"
    /\ lastTurn.phase = "agent"
    /\ lastTurn.status = 503
    /\ Len(lastTurn.pre.transcript) = 2
    /\ Len(Transcript(lastTurn.sessionId)) = 3
    /\ Transcript(lastTurn.sessionId)[3].sender = "user"

\* Every session references an existing chat container of its user, no two
\* sessions reference the same one, and there is one container per session.
ChatsPaired ==
    /\ Len(chats) = Len(sessions)
    /\ \A s \in 1..Len(sessions) :
          /\ sessions[s].chatId \in 1..Len(chats)
          /\ chats[sessions[s].chatId].id = sessions[s].chatId
          /\ chats[sessions[s].chatId].userId = sessions[s].userId
    /\ \A s, t \in 1..Len(sessions) :
          s # t => sessions[s].chatId # sessions[t].chatId

\* C27 (session/chat pairing), with requests interleaved.  Every session is
\* created in one step together with exactly one new chat container, which
\* its chatId references; no two sessions share a chatId; and no step
\* changes the chatId or the userId of a stored session.
C27_SessionChatPairing ==
    /\ []ChatsPaired
    /\ [][/\ \A s \in 1..Len(sessions) :
                /\ s <= Len(sessions')
                /\ sessions'[s].chatId = sessions[s].chatId
                /\ sessions'[s].userId = sessions[s].userId
          /\ sessions' # sessions /\ Len(sessions') # Len(sessions)
                => /\ Len(sessions') = Len(sessions) + 1
                   /\ Len(chats') = Len(chats) + 1
                   /\ SubSeq(chats', 1, Len(chats)) = chats
                   /\ sessions'[Len(sessions')].chatId = chats'[Len(chats')].id
                   /\ sessions'[Len(sessions')].userId = chats'[Len(chats')].userId
          /\ chats' # chats => Len(sessions') = Len(sessions) + 1]_vars

\* Two sessions exist, each with its own chat container, and a completed
\* turn has updated the first one.
C27_Witness ==
    /\ Len(sessions) = 2
    /\ sessions[1].chatId # sessions[2].chatId
    /\ sessions[1].iteration = 1
    /\ ~sessions[1].sessionActive
    /\ lastTurn.op = "message"
    /\ lastTurn.phase = "done"
    /\ lastTurn.sessionId = 2

\* C30 (one active session per user).  With requests executed one at a
\* time, every user has at most one session with sessionActive = true in
\* every reachable state; a session is added only by the last step of GET
\* session:latest and only while its user has no active session; and no
\* step turns sessionActive of a stored session from false to true.
C30_OneActiveSession ==
    /\ [](\A u \in Users : Cardinality(ActiveSessionsOf(u)) <= 1)
    /\ [][/\ Len(sessions') # Len(sessions)
                => /\ Len(sessions') = Len(sessions) + 1
                   /\ lastTurn' = LatestTurn(201, sessions'[Len(sessions')].userId,
                                             Len(sessions'))
                   /\ ActiveSessionsOf(sessions'[Len(sessions')].userId) = {}
                   /\ \E r \in Slots : reqs[r].op = "latest" /\ reqs'[r] = Idle
          /\ \A s \in 1..Len(sessions) :
                ~sessions[s].sessionActive
                    => s <= Len(sessions') /\ ~sessions'[s].sessionActive]_vars

\* The first session of a user has been closed by a turn and GET
\* session:latest has then created the second one, the only active one.
C30_Witness ==
    /\ lastTurn = LatestTurn(201, "u1", 2)
    /\ Len(sessions) = 2
    /\ sessions[1].userId = "u1"
    /\ ~sessions[1].sessionActive
    /\ sessions[2].userId = "u1"
    /\ sessions[2].sessionActive

\* C32 (stale-read overwrite), with requests interleaved.  A turn commits
\* only for a session it loaded as active, and the record it leaves is
\* determined by the copy it loaded, the context it sent and the agent's
\* answer alone: iteration is the loaded iteration + 1 when the agent omits
\* it, and state, goalPreviewId, sessionActive and context replace whatever
\* another turn has stored since the load.  The state the claim names is
\* C32_Witness.
C32_StaleReadOverwrite ==
    TurnDone
        => LET loaded == lastTurn.prior
               answer == lastTurn.answer
           IN  /\ loaded.sessionActive
               /\ loaded.id = lastTurn.sessionId
               /\ Persisted =
                     [loaded EXCEPT
                        !.state = OrElse(answer.state, loaded.state),
                        !.iteration = OrElse(answer.iteration, loaded.iteration + 1),
                        !.goalPreviewId =
                            IF answer.goalPreviewId # None THEN answer.goalPreviewId
                            ELSE IF lastTurn.upserted # None THEN lastTurn.upserted
                            ELSE loaded.goalPreviewId,
                        !.sessionActive =
                            IF lastTurn.actionType = "finalize_goal" THEN FALSE
                            ELSE OrElse(answer.sessionActive, loaded.sessionActive),
                        !.context = OrElse(answer.context, lastTurn.context)]

\* Two turns on session 1 were both loaded at iteration 0 before either was
\* answered and both have completed; the one that saved a preview committed
\* first, and the last one, whose answer omitted every field, has left
\* iteration 1 and no goalPreviewId.
C32_Witness ==
    /\ TurnDone
    /\ \A r \in Slots : reqs[r].pc = "idle"
    /\ lastTurn.sessionId = 1
    /\ lastTurn.prior.iteration = 0
    /\ lastTurn.actionType = "none"
    /\ Present(lastTurn.answer) = 0
    /\ Len(Transcript(1)) = 4
    /\ Transcript(1)[1].sender = "user"
    /\ Transcript(1)[2].sender = "user"
    /\ \E p \in previews : p.sessionId = 1
    /\ Persisted.iteration = 1
    /\ Persisted.goalPreviewId = None

\* C33 (session isolation between users).  With requests executed one at a
\* time: a well-formed message of a user for a session of another user is
\* answered 401; the request that is answered so changes no stored record,
\* appends no message and does not go on to the agent; and no request in
\* flight on a session belongs to a user other than its owner.
C33_SessionIsolation ==
    /\ [](\A u \in Users, s \in 1..Len(sessions) :
             sessions[s].userId # u
                 => \A payloadUserId \in {None, Some(u)} :
                       MessageGuard(u, Some(s), "hello", payloadUserId) = 401)
    /\ [](\A r \in Slots :
             reqs[r].pc \in MessagePcs
                 => sessions[reqs[r].session.id].userId = reqs[r].userId)
    /\ [][\A u \in Users, s \in 1..Len(sessions) :
             (sessions[s].userId # u /\ lastTurn' = GuardTurn(401, u, Some(s)))
                 => UNCHANGED <<resources, sessionStore, reqs>>]_vars

\* The other user has posted a message to an active session of u1 on which
\* u1 has completed a turn, and has been answered 401.
C33_Witness ==
    /\ lastTurn = GuardTurn(401, "u2", Some(1))
    /\ Len(sessions) >= 1
    /\ sessions[1].userId = "u1"
    /\ sessions[1].sessionActive
    /\ Len(Transcript(1)) = 2
    /\ \A r \in Slots : reqs[r].pc = "idle"

\* C35 (a new session after a closed one).  With requests executed one at a
\* time: a GET session:latest of a user who has a closed session
\* (sessionActive false) and no active one is not answered with an existing
\* session but starts a creation; the creation answers 201 with a session
\* whose id no session had before, iteration 0, state plan_generated and an
\* empty transcript; and no step of a session:latest request changes the
\* record of an existing session, a chat message or a preview.
C35_NewSessionAfterClosed ==
    /\ [](\A u \in Users, s \in SessionIds :
             lastTurn = LatestTurn(201, u, s)
                => /\ s = Len(sessions)
                   /\ sessions[s].userId = u
                   /\ sessions[s].iteration = 0
                   /\ sessions[s].state = "plan_generated"
                   /\ sessions[s].sessionActive
                   /\ Transcript(s) = <<>>)
    /\ [][/\ (lastTurn' # lastTurn /\ lastTurn'.op = "latest" /\ lastTurn'.status = 200)
                => ActiveSessionsOf(lastTurn'.userId) # {}
          /\ \A r \in Slots :
                reqs[r].pc = "idle" /\ reqs'[r].pc \in {"latestContext", "latestCreate"}
                    => /\ ActiveSessionsOf(reqs'[r].userId) = {}
                       /\ reqs'[r].pc = "latestContext"
          /\ \A r \in Slots :
                reqs[r].pc = "latestContext" /\ reqs'[r] # reqs[r]
                    => reqs'[r].pc = "latestCreate"
          /\ \A r \in Slots :
                reqs[r].pc = "latestCreate" /\ reqs'[r] # reqs[r]
                    => lastTurn' = LatestTurn(201, reqs[r].userId, Len(sessions) + 1)
          /\ (\/ \E r \in Slots :
                    {reqs[r].pc, reqs'[r].pc} \cap {"latestContext", "latestCreate"} # {}
              \/ (lastTurn' # lastTurn /\ lastTurn'.op = "latest"))
                => /\ \A s \in 1..Len(sessions) :
                         /\ s <= Len(sessions')
                         /\ sessions'[s] = sessions[s]
                         /\ Transcript(s)' = Transcript(s)
                   /\ chatMessages' = chatMessages
                   /\ previews' = previews]_vars

\* The first session of a user was finalized by a turn, which left two
\* messages in its transcript, and GET session:latest has then created
\* session 2: the record and the transcript of session 1 are as the turn left
\* them.
C35_Witness ==
    /\ lastTurn = LatestTurn(201, "u1", 2)
    /\ Len(sessions) = 2
    /\ sessions[1].userId = "u1"
    /\ sessions[1].state = "finalized"
    /\ sessions[1].iteration = 1
    /\ ~sessions[1].sessionActive
    /\ Len(Transcript(1)) = 2
    /\ sessions[2].userId = "u1"
    /\ sessions[2].id = 2
    /\ sessions[2].iteration = 0
    /\ sessions[2].state = "plan_generated"
    /\ Transcript(2) = <<>>

(***************************************************************************)
(* Store operations of a turn that throw.                                  *)
(***************************************************************************)
\* The response of the request in slot r whose store operation `step` threw:
\* the error is not an ApiError and the error middleware answers 500.
\* `written` tells whether the operation's write had been performed, and
\* `answer` is the agent's answer when the session update had it.
StoreFailedTurn(r, step, written, answer) ==
    [op |-> "message", phase |-> "store", status |-> 500, step |-> step,
     written |-> written, userId |-> reqs[r].userId,
     sessionId |-> reqs[r].session.id, message |-> reqs[r].input.message,
     reply |-> reqs[r].reply, actionType |-> reqs[r].actionType,
     prior |-> reqs[r].session, context |-> reqs[r].context,
     answer |-> answer, upserted |-> reqs[r].upserted, pre |-> reqs[r].pre]

\* upsertGoalPreview throws: at its read or its write, or at the read-back
\* (docRef.get()) that follows the write.
MessageUpsertFails(r, withIds) ==
    /\ reqs[r].pc = "upsert"
    /\ \E payload \in IF withIds
                      THEN Payloads(PreviewIdsIn(previews) \cup {AgentChosenPreviewId})
                      ELSE {None},
          written \in BOOLEAN :
          LET previewPayload == PreviewPayload(payload)
              up == UpsertGoalPreview(previews,
                       [id |-> previewPayload.id, userId |-> reqs[r].userId,
                        sessionId |-> reqs[r].session.id, data |-> previewPayload],
                       Clock)
          IN  /\ previews' = IF written THEN up.previews ELSE previews
              /\ lastTurn' = StoreFailedTurn(r, "upsert", written, None)
    /\ reqs' = [reqs EXCEPT ![r] = Idle]
    /\ UNCHANGED <<resources, sessions, updatedOrder, chats, chatMessages>>

\* updateSession throws: at its first docRef.get() or at docRef.update, or
\* at the docRef.get() that follows the update.
MessageUpdateFails(r, answers) ==
    /\ reqs[r].pc = "update"
    /\ \E answer \in answers, written \in BOOLEAN :
          LET id == reqs[r].session.id
              updated == UpdateSession(sessions[id],
                             SessionUpdates(reqs[r].session, reqs[r].context,
                                            reqs[r].actionType, answer,
                                            reqs[r].upserted))
          IN  /\ sessions' = IF written THEN [sessions EXCEPT ![id] = updated]
                             ELSE sessions
              /\ updatedOrder' = IF written THEN Touch(updatedOrder, id) ELSE updatedOrder
              /\ lastTurn' = StoreFailedTurn(r, "update", written, Some(answer))
    /\ reqs' = [reqs EXCEPT ![r] = Idle]
    /\ UNCHANGED <<resources, chats, chatMessages, previews>>

\* Turns of one user executed one at a time, each store operation of a turn
\* after the agent's reply succeeding or throwing.
StoreFailNext ==
    \/ SessionStart(TRUE, Planners, PlainBodies)
    \/ SessionStep(FALSE, AgentAnswers(MaxAnswerFields))
    \/ \E r \in Slots :
          \/ MessageUpsertFails(r, FALSE)
          \/ MessageUpdateFails(r, AgentAnswers(MaxAnswerFields))

StoreFailSpec == Init /\ [][StoreFailNext]_vars

StoreFailed == lastTurn.op = "message" /\ lastTurn.phase = "store"

\* The log of the last turn's session is the one the turn found, then the
\* user's message, then the agent's reply.
ReplyLogged ==
    Transcript(lastTurn.sessionId)
        = lastTurn.pre.transcript
            \o <<ChatMessage(lastTurn.prior.chatId, lastTurn.sessionId, "user",
                             lastTurn.message),
                 ChatMessage(lastTurn.prior.chatId, lastTurn.sessionId, "agent",
                             lastTurn.reply)>>

\* Where the handler stands, seen from the stores: the user message is
\* logged before the agent is invoked, the reply before the preview upsert,
\* the preview before the session update, and the session record is as the
\* request loaded it until the update.
WriteOrderHolds ==
    \A r \in Slots :
        reqs[r].pc \in MessagePcs
            => LET log == Transcript(reqs[r].session.id)
                   found == Len(reqs[r].pre.transcript)
               IN  /\ sessions[reqs[r].session.id] = reqs[r].session
                   /\ Len(log) = found + (CASE reqs[r].pc = "appendUser" -> 0
                                            [] reqs[r].pc \in {"agent", "appendAgent"} -> 1
                                            [] reqs[r].pc \in {"upsert", "update"} -> 2)
                   /\ reqs[r].pc # "appendUser" => log[found + 1].sender = "user"
                   /\ reqs[r].pc \in {"upsert", "update"} => log[found + 2].sender = "agent"
                   /\ reqs[r].pc = "upsert"
                         => reqs[r].actionType = "save_preview" /\ reqs[r].upserted = None
                   /\ reqs[r].pc = "update"
                         => (reqs[r].upserted # None <=> reqs[r].actionType = "save_preview")
                   /\ (reqs[r].pc = "update" /\ reqs[r].upserted # None)
                         => reqs[r].upserted[1] \in PreviewIdsIn(previews)

\* C36 as the specification states it: when the preview upsert or the
\* session update of a turn fails, the transcript holds the agent's reply and
\* the session has its previous state, iteration, goalPreviewId and
\* sessionActive.
C36_SessionKeptOnStoreFailure ==
    StoreFailed
        => /\ ReplyLogged
           /\ Persisted.state = lastTurn.prior.state
           /\ Persisted.iteration = lastTurn.prior.iteration
           /\ Persisted.goalPreviewId = lastTurn.prior.goalPreviewId
           /\ Persisted.sessionActive = lastTurn.prior.sessionActive

\* C36 (write order of a turn), with the turns executed one at a time.  The
\* stores are written in the order user message, agent reply, preview (only
\* for save_preview), session.  When the preview upsert throws, or the
\* session update throws at or before its write, the transcript holds the
\* agent's reply and the session record is the one the turn loaded.  When
\* the session update throws in the read that follows its write, the
\* transcript holds the reply and the session holds the new state,
\* iteration, goalPreviewId, sessionActive and context.
C36_WriteOrder ==
    /\ WriteOrderHolds
    /\ StoreFailed
          => /\ ReplyLogged
             /\ lastTurn.status = 500
             /\ lastTurn.step = "upsert" => lastTurn.actionType = "save_preview"
             /\ IF lastTurn.step = "update" /\ lastTurn.written
                THEN LET loaded == lastTurn.prior
                         answer == lastTurn.answer[1]
                     IN  Persisted =
                            [loaded EXCEPT
                               !.state = OrElse(answer.state, loaded.state),
                               !.iteration = OrElse(answer.iteration, loaded.iteration + 1),
                               !.goalPreviewId =
                                   IF answer.goalPreviewId # None THEN answer.goalPreviewId
                                   ELSE IF lastTurn.upserted # None THEN lastTurn.upserted
                                   ELSE loaded.goalPreviewId,
                               !.sessionActive =
                                   IF lastTurn.actionType = "finalize_goal" THEN FALSE
                                   ELSE OrElse(answer.sessionActive, loaded.sessionActive),
                               !.context = OrElse(answer.context, lastTurn.context)]
                ELSE Persisted = lastTurn.prior

\* The session update of a save_preview turn on a fresh session threw in its
\* read-back: the two messages and the preview are stored, the session is at
\* iteration 1 and points at the preview, and the caller was answered 500.
C36_Witness ==
    /\ StoreFailed
    /\ lastTurn.step = "update"
    /\ lastTurn.written
    /\ lastTurn.actionType = "save_preview"
    /\ lastTurn.prior.iteration = 0
    /\ lastTurn.prior.goalPreviewId = None
    /\ Len(Transcript(lastTurn.sessionId)) = 2
    /\ Persisted.iteration = 1
    /\ Persisted.goalPreviewId = lastTurn.upserted
    /\ Persisted.goalPreviewId # None
    /\ \A r \in Slots : reqs[r].pc = "idle"

(***************************************************************************)
(* upsertGoalPreview on its own: called with any input at any time that is *)
(* not before the latest write.                                            *)
(***************************************************************************)
PreviewData == {EmptyObject, [id |-> None, content |-> "plan"]}

LatestWrite(ps) ==
    LET times == {0} \cup {p.updatedAt : p \in ps}
    IN  CHOOSE t \in times : \A q \in times : q <= t

UpsertInputs(ps) ==
    [id : Opt(PreviewIdsIn(ps) \cup {AgentChosenPreviewId, EmptyPreviewId}),
     userId : Planners, sessionId : SessionIds, data : PreviewData]

UpsertTurn(input, now, pre, record) ==
    [op |-> "upsert", input |-> input, now |-> now, pre |-> pre, record |-> record]

PreviewUpsert(input, now) ==
    /\ ~(HasPreviewId(input) /\ input.id[1] \in PreviewIdsIn(previews))
          => Cardinality(GeneratedIn(previews)) < MaxPreviews
    /\ now >= LatestWrite(previews)
    /\ LET up == UpsertGoalPreview(previews, input, now)
       IN  /\ previews' = up.previews
           /\ lastTurn' = UpsertTurn(input, now, previews, up.record)
    /\ UNCHANGED <<resources, sessions, updatedOrder, chats, chatMessages, reqs>>

PreviewNext ==
    \E input \in UpsertInputs(previews), now \in 0..MaxClock : PreviewUpsert(input, now)

PreviewSpec == Init /\ [][PreviewNext]_vars

\* The three cases of the last call of upsertGoalPreview.
UpdatedInPlace(input, now, pre, record) ==
    LET old == PreviewById(pre, input.id[1])
    IN  /\ record.id = input.id[1]
        /\ record.data = input.data
        /\ record.updatedAt = now
        /\ record = [old EXCEPT !.data = input.data, !.updatedAt = now]
        /\ previews = (pre \ {old}) \cup {record}
        /\ Cardinality(previews) = Cardinality(pre)

CreatedRecord(input, now, pre, record) ==
    /\ record.id \notin PreviewIdsIn(pre)
    /\ record = [id |-> record.id, userId |-> input.userId,
                 sessionId |-> input.sessionId, data |-> input.data,
                 createdAt |-> now, updatedAt |-> now]
    /\ previews = pre \cup {record}
    /\ Cardinality(previews) = Cardinality(pre) + 1

\* C12 (upsertGoalPreview).  With the id of an existing preview the record
\* is updated in place: same id, data replaced by the input data, updatedAt
\* set to the time of the call, every other field and every other record
\* kept, number of previews unchanged.  Without an id a new record is
\* created under an id no preview had, and every existing preview is kept.
\* With an id no preview has a record is created, under that id unless the
\* id is the empty string.
C12_Upsert ==
    lastTurn.op = "upsert" =>
        LET input == lastTurn.input
            now == lastTurn.now
            pre == lastTurn.pre
            record == lastTurn.record
        IN  IF input.id = None
            THEN CreatedRecord(input, now, pre, record)
            ELSE IF input.id[1] \in PreviewIdsIn(pre)
            THEN UpdatedInPlace(input, now, pre, record)
            ELSE /\ CreatedRecord(input, now, pre, record)
                 /\ input.id[1] # EmptyPreviewId => record.id = input.id[1]

\* A preview written earlier has been updated in place with other data at a
\* later time, next to another preview.
C12_Witness ==
    /\ lastTurn.op = "upsert"
    /\ lastTurn.input.id # None
    /\ lastTurn.input.id[1] \in PreviewIdsIn(lastTurn.pre)
    /\ Cardinality(lastTurn.pre) = 2
    /\ PreviewById(lastTurn.pre, lastTurn.input.id[1]).data # lastTurn.input.data
    /\ PreviewById(lastTurn.pre, lastTurn.input.id[1]).updatedAt < lastTurn.now
    /\ lastTurn.record.createdAt < lastTurn.record.updatedAt

(***************************************************************************)
(* Goal repository.                                                        *)
(***************************************************************************)
GOAL_STATUSES == {"active", "completed", "paused", "archived"}

\* getGoalById: None when the document does not exist.
GetGoalById(gs, id) == IF id \in 1..Len(gs) THEN Some(gs[id]) ELSE None

\* createGoal: the document written; a new goal is active.
CreateGoal(gs, input) ==
    [id |-> Len(gs) + 1, userId |-> input.userId, status |-> "active",
     minHoursPerWeek |-> input.minHoursPerWeek]

\* updateGoal: the fields present in `updates` replace the stored ones.
UpdateGoal(goal, updates) ==
    [goal EXCEPT !.status = OrElse(updates.status, @),
                 !.minHoursPerWeek = OrElse(updates.minHoursPerWeek, @)]

\* The response of a request on users, goals, milestones or tasks.
ResourceTurn(op, status, userId) == [op |-> op, status |-> status, userId |-> userId]

\* collectActiveGoalSummaries(userId, excludeGoalId?): listGoals with status
\* 'active', without the excluded goal, each reduced to its id and hours.
RECURSIVE ActiveGoalSummaries(_, _, _, _)
ActiveGoalSummaries(gs, i, userId, excludeGoalId) ==
    IF i > Len(gs) THEN <<>>
    ELSE (IF /\ gs[i].userId = userId
             /\ gs[i].status = "active"
             /\ Some(gs[i].id) # excludeGoalId
          THEN <<[goalId |-> gs[i].id, weeklyHours |-> gs[i].minHoursPerWeek]>>
          ELSE <<>>)
         \o ActiveGoalSummaries(gs, i + 1, userId, excludeGoalId)

CollectActiveGoalSummaries(gs, userId, excludeGoalId) ==
    ActiveGoalSummaries(gs, 1, userId, excludeGoalId)

\* The 409 response of a budget check, with the details of the ApiError.
BudgetConflictTurn(op, userId, availableHoursPerWeek, requiredHoursPerWeek, conflicts) ==
    [op |-> op, status |-> 409, userId |-> userId,
     details |-> [availableHoursPerWeek |-> availableHoursPerWeek,
                  requiredHoursPerWeek |-> requiredHoursPerWeek,
                  conflictingGoals |-> conflicts]]

\* typeof v === 'number' && Number.isFinite(v) && v >= 0; a negative number
\* stands for every value that fails the test.
IsNonNegativeNumber(v) == v >= 0

(***************************************************************************)
(* POST /v1/goals                                                          *)
(***************************************************************************)
PendingGoals ==
    Cardinality({r \in Slots : reqs[r].pc \in {"goalCreateSum", "goalCreateWrite"}})

\* findUserById and the validation of the body.
GoalCreateFind(seq, r, u, body) ==
    /\ MayStart(seq, r)
    /\ Len(goals) + PendingGoals < MaxGoals
    /\ LET user == users[u]
       IN  IF body.title = "" \/ ~IsNonNegativeNumber(body.minHoursPerWeek)
           THEN /\ lastTurn' = ResourceTurn("goalCreate", 400, u)
                /\ UNCHANGED reqs
           ELSE /\ reqs' = [reqs EXCEPT ![r] =
                               [pc |-> "goalCreateSum", op |-> "goalCreate", userId |-> u,
                                user |-> user, body |-> body]]
                /\ lastTurn' = NoTurn
    /\ UNCHANGED <<resources, sessionStore>>

\* A faulty variant of GoalCreateSum that refuses a total equal to the
\* available hours; the budget-rejection property must tell it from the real
\* one.
GoalCreateSumRefusingEqual(r) ==
    /\ reqs[r].pc = "goalCreateSum"
    /\ LET existingHours == SumActiveGoalHours(goals, reqs[r].userId, None)
           totalHours == existingHours + reqs[r].body.minHoursPerWeek
       IN  IF totalHours >= reqs[r].user.availableHoursPerWeek
           THEN /\ lastTurn' = BudgetConflictTurn("goalCreate", reqs[r].userId,
                                  reqs[r].user.availableHoursPerWeek, totalHours,
                                  CollectActiveGoalSummaries(goals, reqs[r].userId, None))
                /\ reqs' = [reqs EXCEPT ![r] = Idle]
           ELSE /\ reqs' = [reqs EXCEPT ![r] =
                               [pc |-> "goalCreateWrite", op |-> "goalCreate",
                                userId |-> reqs[r].userId, user |-> reqs[r].user,
                                body |-> reqs[r].body, totalHours |-> totalHours]]
                /\ UNCHANGED lastTurn
    /\ UNCHANGED <<resources, sessionStore>>

\* A faulty variant of GoalCreateSum that skips the budget check; the
\* hour-budget property must tell it from the real one.
GoalCreateSumUnchecked(r) ==
    /\ reqs[r].pc = "goalCreateSum"
    /\ LET existingHours == SumActiveGoalHours(goals, reqs[r].userId, None)
           totalHours == existingHours + reqs[r].body.minHoursPerWeek
       IN  reqs' = [reqs EXCEPT ![r] =
                       [pc |-> "goalCreateWrite", op |-> "goalCreate",
                        userId |-> reqs[r].userId, user |-> reqs[r].user,
                        body |-> reqs[r].body, totalHours |-> totalHours]]
    /\ UNCHANGED <<resources, sessionStore, lastTurn>>

\* sumActiveGoalHours and the budget check.
GoalCreateSum(r) ==
    /\ reqs[r].pc = "goalCreateSum"
    /\ LET existingHours == SumActiveGoalHours(goals, reqs[r].userId, None)
           totalHours == existingHours + reqs[r].body.minHoursPerWeek
       IN  IF totalHours > reqs[r].user.availableHoursPerWeek
           THEN /\ lastTurn' = BudgetConflictTurn("goalCreate", reqs[r].userId,
                                  reqs[r].user.availableHoursPerWeek, totalHours,
                                  CollectActiveGoalSummaries(goals, reqs[r].userId, None))
                /\ reqs' = [reqs EXCEPT ![r] = Idle]
           ELSE /\ reqs' = [reqs EXCEPT ![r] =
                               [pc |-> "goalCreateWrite", op |-> "goalCreate",
                                userId |-> reqs[r].userId, user |-> reqs[r].user,
                                body |-> reqs[r].body, totalHours |-> totalHours]]
                /\ UNCHANGED lastTurn
    /\ UNCHANGED <<resources, sessionStore>>

\* createGoal, and the response.
GoalCreateWrite(r) ==
    /\ reqs[r].pc = "goalCreateWrite"
    /\ goals' = Append(goals,
                       CreateGoal(goals, [userId |-> reqs[r].userId,
                                          minHoursPerWeek |-> reqs[r].body.minHoursPerWeek]))
    /\ lastTurn' = ResourceTurn("goalCreate", 201, reqs[r].userId)
    /\ reqs' = [reqs EXCEPT ![r] = Idle]
    /\ UNCHANGED <<users, milestones, tasks, sessionStore>>

(***************************************************************************)
(* PATCH /v1/goals/:goalId                                                 *)
(***************************************************************************)
\* assertOwnedGoal: the status of the error thrown, or 200.
OwnedGoalStatus(gs, goalId, userId) ==
    LET goal == GetGoalById(gs, goalId)
    IN  IF goal = None THEN 404
        ELSE IF goal[1].userId # userId THEN 403
        ELSE 200

\* The validation of the body: status and minHoursPerWeek are optional.
GoalPatchBodyStatus(body) ==
    IF body.status # None /\ body.status[1] \notin GOAL_STATUSES THEN 400
    ELSE IF body.minHoursPerWeek # None /\ ~IsNonNegativeNumber(body.minHoursPerWeek[1])
    THEN 400
    ELSE IF body.status = None /\ body.minHoursPerWeek = None THEN 400
    ELSE 200

\* assertOwnedGoal and the validation of the body.
GoalPatchFind(seq, r, u, goalId, body) ==
    /\ MayStart(seq, r)
    /\ LET owned == OwnedGoalStatus(goals, goalId, u)
           status == IF owned # 200 THEN owned ELSE GoalPatchBodyStatus(body)
       IN  IF status # 200
           THEN /\ lastTurn' = ResourceTurn("goalPatch", status, u)
                /\ UNCHANGED reqs
           ELSE /\ reqs' = [reqs EXCEPT ![r] =
                               [pc |-> "goalPatchUser", op |-> "goalPatch", userId |-> u,
                                goal |-> goals[goalId],
                                updates |-> [status |-> body.status,
                                             minHoursPerWeek |-> body.minHoursPerWeek]]]
                /\ lastTurn' = NoTurn
    /\ UNCHANGED <<resources, sessionStore>>

GoalPatchUserAlwaysChecking(r) ==
    /\ reqs[r].pc = "goalPatchUser"
    /\ reqs' = [reqs EXCEPT ![r] =
                   [pc |-> "goalPatchSum",
                    op |-> "goalPatch", userId |-> reqs[r].userId,
                    goal |-> reqs[r].goal, updates |-> reqs[r].updates,
                    user |-> users[reqs[r].userId]]]
    /\ UNCHANGED <<resources, sessionStore, lastTurn>>

\* findUserById; the budget is checked when the goal is to be active.
GoalPatchUser(r) ==
    /\ reqs[r].pc = "goalPatchUser"
    /\ LET nextStatus == OrElse(reqs[r].updates.status, reqs[r].goal.status)
       IN  reqs' = [reqs EXCEPT ![r] =
                       [pc |-> IF nextStatus = "active" THEN "goalPatchSum"
                               ELSE "goalPatchWrite",
                        op |-> "goalPatch", userId |-> reqs[r].userId,
                        goal |-> reqs[r].goal, updates |-> reqs[r].updates,
                        user |-> users[reqs[r].userId]]]
    /\ UNCHANGED <<resources, sessionStore, lastTurn>>

\* sumActiveGoalHours over the other goals, and the budget check.
GoalPatchSum(r) ==
    /\ reqs[r].pc = "goalPatchSum"
    /\ LET nextHours == OrElse(reqs[r].updates.minHoursPerWeek,
                               reqs[r].goal.minHoursPerWeek)
           otherHours == SumActiveGoalHours(goals, reqs[r].userId, Some(reqs[r].goal.id))
           totalHours == otherHours + nextHours
       IN  IF totalHours > reqs[r].user.availableHoursPerWeek
           THEN /\ lastTurn' = BudgetConflictTurn("goalPatch", reqs[r].userId,
                                  reqs[r].user.availableHoursPerWeek, totalHours,
                                  Append(CollectActiveGoalSummaries(goals, reqs[r].userId,
                                                                    Some(reqs[r].goal.id)),
                                         [goalId |-> reqs[r].goal.id,
                                          weeklyHours |-> nextHours]))
                /\ reqs' = [reqs EXCEPT ![r] = Idle]
           ELSE /\ reqs' = [reqs EXCEPT ![r].pc = "goalPatchWrite"]
                /\ UNCHANGED lastTurn
    /\ UNCHANGED <<resources, sessionStore>>

\* updateGoal, and the response.
GoalPatchWrite(r) ==
    /\ reqs[r].pc = "goalPatchWrite"
    /\ goals' = [goals EXCEPT ![reqs[r].goal.id] = UpdateGoal(@, reqs[r].updates)]
    /\ lastTurn' = ResourceTurn("goalPatch", 200, reqs[r].userId)
    /\ reqs' = [reqs EXCEPT ![r] = Idle]
    /\ UNCHANGED <<users, milestones, tasks, sessionStore>>

(***************************************************************************)
(* PATCH /v1/me                                                            *)
(***************************************************************************)
MAX_AVAILABLE_HOURS == 168

\* updateUser: the fields present in `updates` replace the stored ones.
UpdateUser(user, updates) ==
    [user EXCEPT !.name = OrElse(updates.name, @),
                 !.availableHoursPerWeek = OrElse(updates.availableHoursPerWeek, @)]

\* The validation of the body, in the order of the handler: name, then
\* availableHoursPerWeek; the sum is read only when the latter is present.
MePatchBodyStatus(body) ==
    IF body.name # None /\ body.name[1] = "" THEN 400
    ELSE IF body.availableHoursPerWeek # None
            /\ ~(body.availableHoursPerWeek[1] >= 0
                   /\ body.availableHoursPerWeek[1] <= MAX_AVAILABLE_HOURS)
    THEN 400
    ELSE IF body.name = None /\ body.availableHoursPerWeek = None THEN 400
    ELSE 200

\* findUserById and the validation of the body; name and
\* availableHoursPerWeek are the updatable fields modelled.
MePatchFind(seq, r, u, body) ==
    /\ MayStart(seq, r)
    /\ LET status == MePatchBodyStatus(body)
       IN  IF status # 200
           THEN /\ lastTurn' = ResourceTurn("mePatch", status, u)
                /\ UNCHANGED reqs
           ELSE /\ reqs' = [reqs EXCEPT ![r] =
                               [pc |-> IF body.availableHoursPerWeek # None
                                       THEN "mePatchSum" ELSE "mePatchWrite",
                                op |-> "mePatch", userId |-> u,
                                user |-> users[u],
                                updates |-> [name |-> body.name,
                                             availableHoursPerWeek |->
                                                 body.availableHoursPerWeek]]]
                /\ lastTurn' = NoTurn
    /\ UNCHANGED <<resources, sessionStore>>

\* A faulty variant of MePatchSum that refuses a value equal to the active
\* hours; the property of lowering the hours must tell it from the real
\* one.
MePatchSumRefusingEqual(r) ==
    /\ reqs[r].pc = "mePatchSum"
    /\ LET availableHoursPerWeek == reqs[r].updates.availableHoursPerWeek[1]
           activeHours == SumActiveGoalHours(goals, reqs[r].userId, None)
       IN  IF availableHoursPerWeek <= activeHours
           THEN /\ lastTurn' = BudgetConflictTurn("mePatch", reqs[r].userId,
                                  availableHoursPerWeek, activeHours,
                                  CollectActiveGoalSummaries(goals, reqs[r].userId, None))
                /\ reqs' = [reqs EXCEPT ![r] = Idle]
           ELSE /\ reqs' = [reqs EXCEPT ![r].pc = "mePatchWrite"]
                /\ UNCHANGED lastTurn
    /\ UNCHANGED <<resources, sessionStore>>

\* A faulty variant of MePatchSum that skips the budget check; the property
\* of the race between PATCH /v1/me and the goal mutations must tell it from
\* the real one.
MePatchSumUnchecked(r) ==
    /\ reqs[r].pc = "mePatchSum"
    /\ reqs' = [reqs EXCEPT ![r].pc = "mePatchWrite"]
    /\ UNCHANGED <<resources, sessionStore, lastTurn>>

\* sumActiveGoalHours and the budget check.
MePatchSum(r) ==
    /\ reqs[r].pc = "mePatchSum"
    /\ LET availableHoursPerWeek == reqs[r].updates.availableHoursPerWeek[1]
           activeHours == SumActiveGoalHours(goals, reqs[r].userId, None)
       IN  IF availableHoursPerWeek < activeHours
           THEN /\ lastTurn' = BudgetConflictTurn("mePatch", reqs[r].userId,
                                  availableHoursPerWeek, activeHours,
                                  CollectActiveGoalSummaries(goals, reqs[r].userId, None))
                /\ reqs' = [reqs EXCEPT ![r] = Idle]
           ELSE /\ reqs' = [reqs EXCEPT ![r].pc = "mePatchWrite"]
                /\ UNCHANGED lastTurn
    /\ UNCHANGED <<resources, sessionStore>>

\* updateUser, and the response.
MePatchWrite(r) ==
    /\ reqs[r].pc = "mePatchWrite"
    /\ users' = [users EXCEPT ![reqs[r].userId] = UpdateUser(@, reqs[r].updates)]
    /\ lastTurn' = ResourceTurn("mePatch", 200, reqs[r].userId)
    /\ reqs' = [reqs EXCEPT ![r] = Idle]
    /\ UNCHANGED <<goals, milestones, tasks, sessionStore>>

(***************************************************************************)
(* Specification of the goal and user mutations, executed one at a time.   *)
(***************************************************************************)
GoalIds == 1..MaxGoals

\* minHoursPerWeek and availableHoursPerWeek in request bodies; -5 and 169
\* are the invalid ones.
GoalHours == {-5, 10, 15}

AvailableHours == {10, 30, 169}

GoalCreateBodies == [title : {"", "goal"}, minHoursPerWeek : GoalHours]

GoalPatchBodies ==
    [status : Opt({"active", "paused", "bogus"}), minHoursPerWeek : Opt(GoalHours)]

MePatchBodies == [name : {None}, availableHoursPerWeek : Opt(AvailableHours)]

BudgetStart(seq) ==
    \E r \in Slots, u \in Users :
        \/ \E body \in GoalCreateBodies : GoalCreateFind(seq, r, u, body)
        \/ \E goalId \in GoalIds, body \in GoalPatchBodies :
                GoalPatchFind(seq, r, u, goalId, body)
        \/ \E body \in MePatchBodies : MePatchFind(seq, r, u, body)

BudgetStep ==
    \E r \in Slots :
        \/ GoalCreateSum(r)
        \/ GoalCreateWrite(r)
        \/ GoalPatchUser(r)
        \/ GoalPatchSum(r)
        \/ GoalPatchWrite(r)
        \/ MePatchSum(r)
        \/ MePatchWrite(r)

BudgetNext == BudgetStart(TRUE) \/ BudgetStep

BudgetSpec == Init /\ [][BudgetNext]_vars

(***************************************************************************)
(* Properties of the goal and user mutations.                              *)
(***************************************************************************)
Succeeded(turn) == turn.op # "none" /\ turn.status \in {200, 201}

Rejected(turn, status) == turn.op # "none" /\ turn.status = status

BudgetHolds(u) == SumActiveGoalHours(goals, u, None) <= users[u].availableHoursPerWeek

\* The request in slot r is at its budget check and the mutation it asks
\* for would take the user's active hours above the available ones.
WouldBreakBudget(r) ==
    LET u == reqs[r].userId
    IN  \/ /\ reqs[r].pc = "goalCreateSum"
           /\ SumActiveGoalHours(goals, u, None) + reqs[r].body.minHoursPerWeek
                  > users[u].availableHoursPerWeek
        \/ /\ reqs[r].pc = "goalPatchSum"
           /\ SumActiveGoalHours(goals, u, Some(reqs[r].goal.id))
                  + OrElse(reqs[r].updates.minHoursPerWeek,
                           goals[reqs[r].goal.id].minHoursPerWeek)
                  > users[u].availableHoursPerWeek
        \/ /\ reqs[r].pc = "mePatchSum"
           /\ reqs[r].updates.availableHoursPerWeek[1]
                  < SumActiveGoalHours(goals, u, None)

\* C1 (hour-budget invariant).  With requests executed one at a time: after
\* every step, and so after every successful POST /v1/goals, PATCH
\* /v1/goals/:goalId and PATCH /v1/me, each user's active goals sum to at
\* most the user's availableHoursPerWeek; users and goals are written only
\* by the step that completes a request successfully; and a request whose
\* mutation would break the budget is answered 409 by its check, with
\* nothing written.
C1_HourBudget ==
    [][/\ \A u \in Users : BudgetHolds(u)'
       /\ resources' # resources => lastTurn = NoTurn /\ Succeeded(lastTurn')
       /\ \A r \in Slots :
             WouldBreakBudget(r) /\ reqs'[r] # reqs[r]
                 => Rejected(lastTurn', 409) /\ UNCHANGED resources]_vars

\* A mutation has succeeded that uses the budget up: the active hours of
\* the user equal the available ones.
C1_Witness ==
    /\ Succeeded(lastTurn)
    /\ lastTurn.op \in {"goalCreate", "goalPatch", "mePatch"}
    /\ SumActiveGoalHours(goals, lastTurn.userId, None) > 0
    /\ SumActiveGoalHours(goals, lastTurn.userId, None)
           = users[lastTurn.userId].availableHoursPerWeek

\* The active goals of a user, as the entries a conflict error lists.
ActiveGoalEntries(u) ==
    {[goalId |-> g, weeklyHours |-> goals[g].minHoursPerWeek] :
        g \in {h \in 1..Len(goals) : goals[h].userId = u /\ goals[h].status = "active"}}

Entries(conflicts) == {conflicts[i] : i \in 1..Len(conflicts)}

\* C17 (budget rejection on goal creation).  With requests executed one at
\* a time, a POST /v1/goals request with a valid body is answered 409
\* exactly when the hours of the user's active goals plus the new goal's
\* minHoursPerWeek exceed availableHoursPerWeek (an equal total goes on to
\* create the goal and is answered 201); the 409 carries
\* requiredHoursPerWeek equal to that total and conflictingGoals listing
\* each active goal of the user once, and users and goals are unchanged.
C17_BudgetRejection ==
    [][/\ \A r \in Slots :
             reqs[r].pc = "goalCreateSum" /\ reqs'[r] # reqs[r]
                 => LET u == reqs[r].userId
                        total == SumActiveGoalHours(goals, u, None)
                                     + reqs[r].body.minHoursPerWeek
                    IN  IF total > users[u].availableHoursPerWeek
                        THEN /\ lastTurn'.op = "goalCreate"
                             /\ lastTurn'.status = 409
                             /\ lastTurn'.userId = u
                             /\ lastTurn'.details.requiredHoursPerWeek = total
                             /\ Entries(lastTurn'.details.conflictingGoals)
                                    = ActiveGoalEntries(u)
                             /\ Len(lastTurn'.details.conflictingGoals)
                                    = Cardinality(ActiveGoalEntries(u))
                             /\ reqs'[r].pc = "idle"
                             /\ UNCHANGED resources
                        ELSE /\ reqs'[r].pc = "goalCreateWrite"
                             /\ lastTurn' = lastTurn
       /\ \A r \in Slots :
             reqs[r].pc = "goalCreateWrite" /\ reqs'[r] # reqs[r]
                 => /\ Len(goals') = Len(goals) + 1
                    /\ lastTurn' = ResourceTurn("goalCreate", 201, reqs[r].userId)
       /\ (lastTurn' # lastTurn /\ lastTurn'.op = "goalCreate" /\ lastTurn'.status = 409)
             => \E r \in Slots : reqs[r].pc = "goalCreateSum" /\ reqs'[r].pc = "idle"]_vars

\* A user with 20 available hours and one active goal of 10 hours has asked
\* for a goal of 15 hours: 409 with requiredHoursPerWeek 25 and the first
\* goal listed.
C17_Witness ==
    /\ lastTurn = BudgetConflictTurn("goalCreate", "u1", 20, 25,
                                     <<[goalId |-> 1, weeklyHours |-> 10]>>)
    /\ Len(goals) = 1
    /\ users["u1"].availableHoursPerWeek = 20

(***************************************************************************)
(* PATCH /v1/me with a name next to the hours, over goals created with     *)
(* valid bodies; requests executed one at a time.                          *)
(***************************************************************************)
Names == {"", "Ann"}

MePatchBodiesWithName == [name : Opt(Names), availableHoursPerWeek : Opt(AvailableHours)]

ValidGoalBodies == [title : {"goal"}, minHoursPerWeek : {10, 15}]

MeNext ==
    \/ \E r \in Slots, u \in Users :
          \/ \E body \in ValidGoalBodies : GoalCreateFind(TRUE, r, u, body)
          \/ \E body \in MePatchBodiesWithName : MePatchFind(TRUE, r, u, body)
    \/ \E r \in Slots :
          \/ GoalCreateSum(r)
          \/ GoalCreateWrite(r)
          \/ MePatchSum(r)
          \/ MePatchWrite(r)

MeSpec == Init /\ [][MeNext]_vars

\* C18 (lowering availableHoursPerWeek).  With requests executed one at a
\* time, a PATCH /v1/me whose availableHoursPerWeek (within 0..168) is below
\* the hours of the user's active goals is answered 409 listing each active
\* goal once, and the user record is unchanged, whatever name the request
\* carried; a value equal to or above those hours goes on to the write,
\* which stores that value and the name the request carried and answers
\* 200.  User records change by no other step.
C18_LoweringHours ==
    [][/\ \A r \in Slots :
             reqs[r].pc = "mePatchSum" /\ reqs'[r] # reqs[r]
                 => LET u == reqs[r].userId
                        new == reqs[r].updates.availableHoursPerWeek[1]
                        total == SumActiveGoalHours(goals, u, None)
                    IN  /\ new >= 0 /\ new <= MAX_AVAILABLE_HOURS
                        /\ UNCHANGED resources
                        /\ IF new < total
                           THEN /\ lastTurn'.op = "mePatch"
                                /\ lastTurn'.status = 409
                                /\ lastTurn'.userId = u
                                /\ lastTurn'.details.requiredHoursPerWeek = total
                                /\ Entries(lastTurn'.details.conflictingGoals)
                                       = ActiveGoalEntries(u)
                                /\ Len(lastTurn'.details.conflictingGoals)
                                       = Cardinality(ActiveGoalEntries(u))
                                /\ reqs'[r].pc = "idle"
                           ELSE /\ reqs'[r].pc = "mePatchWrite"
                                /\ lastTurn' = lastTurn
       /\ \A r \in Slots :
             reqs[r].pc = "mePatchWrite" /\ reqs'[r] # reqs[r]
                 => LET u == reqs[r].userId
                        updates == reqs[r].updates
                    IN  /\ users' = [users EXCEPT ![u] =
                              [name |-> OrElse(updates.name, users[u].name),
                               availableHoursPerWeek |->
                                   OrElse(updates.availableHoursPerWeek,
                                          users[u].availableHoursPerWeek)]]
                        /\ lastTurn' = ResourceTurn("mePatch", 200, u)
       /\ users' # users
             => \E r \in Slots : reqs[r].pc = "mePatchWrite" /\ reqs'[r].pc = "idle"]_vars

\* A user with 30 available hours and active goals of 10 and 15 hours has
\* asked for 10 hours: 409 listing both goals, the record unchanged.
C18_Witness ==
    /\ lastTurn = BudgetConflictTurn("mePatch", "u1", 10, 25,
                                     <<[goalId |-> 1, weeklyHours |-> 10],
                                       [goalId |-> 2, weeklyHours |-> 15]>>)
    /\ users["u1"] = [name |-> "Ann", availableHoursPerWeek |-> 30]

(***************************************************************************)
(* POST /v1/goals requests interleaved at store-operation granularity.     *)
(***************************************************************************)
BudgetRaceNext ==
    \/ \E r \in Slots, u \in Users, body \in GoalCreateBodies :
            GoalCreateFind(FALSE, r, u, body)
    \/ \E r \in Slots : GoalCreateSum(r) \/ GoalCreateWrite(r)

BudgetRaceSpec == Init /\ [][BudgetRaceNext]_vars

\* C15 (documented budget race).  With POST /v1/goals requests interleaved,
\* every request that is about to write has passed the budget check with the
\* sum it read, and a step that takes a user's active hours above the
\* available ones is the write of such a request of that user whose sum is
\* stale: another goal of the user was committed after it read the sum.  The
\* state the claim names is C15_Witness.
C15_OvershootByStaleCheck ==
    [][/\ \A r \in Slots :
             reqs[r].pc = "goalCreateWrite"
                 => reqs[r].totalHours <= reqs[r].user.availableHoursPerWeek
       /\ \A u \in Users :
             BudgetHolds(u) /\ ~BudgetHolds(u)'
                 => \E r \in Slots :
                       /\ reqs[r].pc = "goalCreateWrite"
                       /\ reqs[r].userId = u
                       /\ reqs'[r].pc = "idle"
                       /\ lastTurn' = ResourceTurn("goalCreate", 201, u)
                       /\ reqs[r].totalHours
                             < SumActiveGoalHours(goals, u, None)
                                   + reqs[r].body.minHoursPerWeek]_vars

\* Two goal creations of one user have both been answered 201 and both
\* goals are stored: the user's active hours exceed the available ones.
C15_Witness ==
    /\ lastTurn = ResourceTurn("goalCreate", 201, "u1")
    /\ \A r \in Slots : reqs[r].pc = "idle"
    /\ Len(goals) = 2
    /\ \A g \in 1..2 : goals[g].userId = "u1" /\ goals[g].status = "active"
    /\ SumActiveGoalHours(goals, "u1", None) > users["u1"].availableHoursPerWeek

(***************************************************************************)
(* Milestone and task repositories.                                        *)
(***************************************************************************)
\* getMilestoneById: None when the document does not exist.
GetMilestoneById(ms, id) == IF id \in 1..Len(ms) THEN Some(ms[id]) ELSE None

\* The status createMilestone gives a new document; its value is not set by
\* the route.
NewMilestoneStatus == "new"

\* createMilestone: the document written.
CreateMilestone(ms, input) ==
    [id |-> Len(ms) + 1, goalId |-> input.goalId,
     parentMilestoneId |-> input.parentMilestoneId,
     title |-> input.title, status |-> NewMilestoneStatus]

\* updateMilestone: the fields present in `updates` replace the stored ones.
UpdateMilestone(milestone, updates) ==
    [f \in DOMAIN milestone |->
        IF f \in DOMAIN updates /\ updates[f] # None THEN updates[f][1]
        ELSE milestone[f]]

\* getTaskById: None when the document does not exist.
GetTaskById(ts, id) == IF id \in 1..Len(ts) THEN Some(ts[id]) ELSE None

\* listTasksByMilestone
ListTasksByMilestone(ts, milestoneId) ==
    SelectSeq(ts, LAMBDA t : t.milestoneId = milestoneId)

\* createTask: the document written; a new task is not done.
CreateTask(ts, input) ==
    [id |-> Len(ts) + 1, goalId |-> input.goalId, milestoneId |-> input.milestoneId,
     userId |-> input.userId, date |-> input.date,
     estimatedHours |-> input.estimatedHours, done |-> FALSE]

\* updateTask: the fields present in `updates` replace the stored ones.
UpdateTask(task, updates) ==
    [task EXCEPT !.date = OrElse(updates.date, @),
                 !.estimatedHours = OrElse(updates.estimatedHours, @)]

(***************************************************************************)
(* Ownership and validation helpers.                                       *)
(***************************************************************************)
\* assertOwnedMilestone: the status of the error thrown, or 200.
OwnedMilestoneStatus(ms, gs, milestoneId, userId) ==
    LET milestone == GetMilestoneById(ms, milestoneId)
    IN  IF milestone = None THEN 404
        ELSE OwnedGoalStatus(gs, milestone[1].goalId, userId)

\* assertOwnedTask: the status of the error thrown, or 200.
OwnedTaskStatus(ts, ms, gs, taskId, userId) ==
    LET task == GetTaskById(ts, taskId)
    IN  IF task = None THEN 404
        ELSE OwnedMilestoneStatus(ms, gs, task[1].milestoneId, userId)

\* A date in a request body: not a non-empty string ("empty"), a string
\* Date cannot parse ("garbage"), or a timestamp of calendar day `day` whose
\* UTC instant lies `shift` days later (an offset west of UTC late in the
\* day).  Calendar days are numbered.
DateInputs(days) ==
    {[kind |-> "empty", day |-> 0, shift |-> 0],
     [kind |-> "garbage", day |-> 0, shift |-> 0]}
        \cup [kind : {"iso"}, day : days, shift : {0, 1}]

\* validateIsoDate: None when it throws (400), else the UTC calendar day,
\* new Date(value).toISOString().slice(0, 10).
ValidateIsoDate(value) ==
    IF value = None \/ value[1].kind # "iso" THEN None
    ELSE Some(value[1].day + value[1].shift)

\* The 409 response of ensureNoTaskConflict, with the details of the ApiError.
TaskConflictTurn(op, userId, conflictingTaskIds) ==
    [op |-> op, status |-> 409, userId |-> userId,
     details |-> [conflictingTaskIds |-> conflictingTaskIds]]

\* A faulty variant of ConflictingTaskIds that does not exclude the task
\* being updated; the date-conflict property must tell it from the real one.
ConflictingTaskIdsWithSelf(ts, milestoneId, userId, date, excludeTaskId) ==
    LET listed == SelectSeq(ts, LAMBDA task : task.milestoneId = milestoneId)
        conflicting == SelectSeq(listed,
                           LAMBDA task : task.userId = userId /\ task.date = date)
    IN  {conflicting[i].id : i \in 1..Len(conflicting)}

\* A faulty variant of ConflictingTaskIds that never finds a conflict; the
\* one-task-per-day property must tell it from the real one.
NoConflictingTaskIds(ts, milestoneId, userId, date, excludeTaskId) == {}

\* A faulty variant of ConflictingTaskIds that looks at all tasks of the
\* user instead of those of the milestone; the milestone-scope property must
\* tell it from the real one.
ConflictingTaskIdsOfUser(ts, milestoneId, userId, date, excludeTaskId) ==
    LET conflicting == SelectSeq(ts,
                           LAMBDA task : /\ Some(task.id) # excludeTaskId
                                         /\ task.userId = userId
                                         /\ task.date = date)
    IN  {conflicting[i].id : i \in 1..Len(conflicting)}

\* ensureNoTaskConflict: the ids of the conflicting tasks.
ConflictingTaskIds(ts, milestoneId, userId, date, excludeTaskId) ==
    LET listed == ListTasksByMilestone(ts, milestoneId)
        conflicting == SelectSeq(listed,
                           LAMBDA task : /\ Some(task.id) # excludeTaskId
                                         /\ task.userId = userId
                                         /\ task.date = date)
    IN  {conflicting[i].id : i \in 1..Len(conflicting)}

(***************************************************************************)
(* POST /v1/goals/:goalId/milestones                                       *)
(***************************************************************************)
PendingMilestones ==
    Cardinality({r \in Slots : reqs[r].pc \in {"milestoneParent", "milestoneWrite"}})

\* assertOwnedGoal and the validation of the body.
MilestoneCreateFind(seq, r, u, goalId, body) ==
    /\ MayStart(seq, r)
    /\ Len(milestones) + PendingMilestones < MaxMilestones
    /\ LET owned == OwnedGoalStatus(goals, goalId, u)
           status == IF owned # 200 THEN owned
                     ELSE IF body.title = "" THEN 400 ELSE 200
       IN  IF status # 200
           THEN /\ lastTurn' = ResourceTurn("milestoneCreate", status, u)
                /\ UNCHANGED reqs
           ELSE /\ reqs' = [reqs EXCEPT ![r] =
                               [pc |-> IF body.parentMilestoneId # None
                                       THEN "milestoneParent" ELSE "milestoneWrite",
                                op |-> "milestoneCreate", userId |-> u,
                                goal |-> goals[goalId], body |-> body]]
                /\ lastTurn' = NoTurn
    /\ UNCHANGED <<resources, sessionStore>>

\* assertOwnedMilestone on the parent, which must belong to the same goal.
MilestoneCreateParent(r) ==
    /\ reqs[r].pc = "milestoneParent"
    /\ LET parentMilestoneId == reqs[r].body.parentMilestoneId[1]
           owned == OwnedMilestoneStatus(milestones, goals, parentMilestoneId,
                                         reqs[r].userId)
           status == IF owned # 200 THEN owned
                     ELSE IF milestones[parentMilestoneId].goalId # reqs[r].goal.id
                     THEN 400 ELSE 200
       IN  IF status # 200
           THEN /\ lastTurn' = ResourceTurn("milestoneCreate", status, reqs[r].userId)
                /\ reqs' = [reqs EXCEPT ![r] = Idle]
           ELSE /\ reqs' = [reqs EXCEPT ![r].pc = "milestoneWrite"]
                /\ UNCHANGED lastTurn
    /\ UNCHANGED <<resources, sessionStore>>

\* createMilestone, and the response.
MilestoneCreateWrite(r) ==
    /\ reqs[r].pc = "milestoneWrite"
    /\ milestones' = Append(milestones,
           CreateMilestone(milestones,
               [goalId |-> reqs[r].goal.id,
                title |-> reqs[r].body.title,
                parentMilestoneId |-> reqs[r].body.parentMilestoneId]))
    /\ lastTurn' = ResourceTurn("milestoneCreate", 201, reqs[r].userId)
    /\ reqs' = [reqs EXCEPT ![r] = Idle]
    /\ UNCHANGED <<users, goals, tasks, sessionStore>>

(***************************************************************************)
(* PATCH /v1/milestones/:milestoneId                                       *)
(***************************************************************************)
MILESTONE_STATUSES == {"blocked", "in_progress", "finished"}

\* The validation of the body: the status of the error thrown, or 200.
MilestonePatchBodyStatus(body) ==
    IF body.title # None /\ body.title[1] = "" THEN 400
    ELSE IF body.status # None /\ body.status[1] \notin MILESTONE_STATUSES THEN 400
    ELSE IF body.title = None /\ body.status = None THEN 400
    ELSE 200

\* A faulty variant of MilestonePatchUpdates that passes the parent of the
\* body on; the parent property must tell it from the real one.
MilestonePatchUpdatesWithParent(body) ==
    [title |-> body.title, status |-> body.status,
     parentMilestoneId |-> IF body.parentMilestoneId = None THEN None
                           ELSE Some(body.parentMilestoneId)]

\* `updates`: of the body only title, description and status are read.
MilestonePatchUpdates(body) == [title |-> body.title, status |-> body.status]

\* assertOwnedMilestone and the validation of the body.
MilestonePatchFind(seq, r, u, milestoneId, body) ==
    /\ MayStart(seq, r)
    /\ LET owned == OwnedMilestoneStatus(milestones, goals, milestoneId, u)
           status == IF owned # 200 THEN owned ELSE MilestonePatchBodyStatus(body)
       IN  IF status # 200
           THEN /\ lastTurn' = ResourceTurn("milestonePatch", status, u)
                /\ UNCHANGED reqs
           ELSE /\ reqs' = [reqs EXCEPT ![r] =
                               [pc |-> "milestonePatchWrite", op |-> "milestonePatch",
                                userId |-> u, milestoneId |-> milestoneId,
                                updates |-> MilestonePatchUpdates(body)]]
                /\ lastTurn' = NoTurn
    /\ UNCHANGED <<resources, sessionStore>>

\* updateMilestone, and the response.
MilestonePatchWrite(r) ==
    /\ reqs[r].pc = "milestonePatchWrite"
    /\ milestones' = [milestones EXCEPT ![reqs[r].milestoneId] =
                          UpdateMilestone(@, reqs[r].updates)]
    /\ lastTurn' = ResourceTurn("milestonePatch", 200, reqs[r].userId)
    /\ reqs' = [reqs EXCEPT ![r] = Idle]
    /\ UNCHANGED <<users, goals, tasks, sessionStore>>

(***************************************************************************)
(* POST /v1/milestones/:milestoneId/tasks                                  *)
(***************************************************************************)
PendingTasks ==
    Cardinality({r \in Slots : reqs[r].pc \in {"taskCreateCheck", "taskCreateWrite"}})

\* assertOwnedMilestone and the validation of the body.
TaskCreateFind(seq, r, u, milestoneId, body) ==
    /\ MayStart(seq, r)
    /\ Len(tasks) + PendingTasks < MaxTasks
    /\ LET owned == OwnedMilestoneStatus(milestones, goals, milestoneId, u)
           taskDate == ValidateIsoDate(body.date)
           status == IF owned # 200 THEN owned
                     ELSE IF body.title = "" THEN 400
                     ELSE IF taskDate = None THEN 400
                     ELSE IF ~IsNonNegativeNumber(body.estimatedHours) THEN 400
                     ELSE 200
       IN  IF status # 200
           THEN /\ lastTurn' = ResourceTurn("taskCreate", status, u)
                /\ UNCHANGED reqs
           ELSE /\ reqs' = [reqs EXCEPT ![r] =
                               [pc |-> "taskCreateCheck", op |-> "taskCreate",
                                userId |-> u, milestone |-> milestones[milestoneId],
                                taskDate |-> taskDate[1],
                                hours |-> body.estimatedHours]]
                /\ lastTurn' = NoTurn
    /\ UNCHANGED <<resources, sessionStore>>

\* A faulty variant of TaskCreateCheck that lets every request through; the
\* property of the date race must tell it from the real one.
TaskCreateCheckSkipped(r) ==
    /\ reqs[r].pc = "taskCreateCheck"
    /\ reqs' = [reqs EXCEPT ![r].pc = "taskCreateWrite"]
    /\ UNCHANGED <<resources, sessionStore, lastTurn>>

\* ensureNoTaskConflict
TaskCreateCheck(r) ==
    /\ reqs[r].pc = "taskCreateCheck"
    /\ LET conflicting == ConflictingTaskIds(tasks, reqs[r].milestone.id,
                                             reqs[r].userId, reqs[r].taskDate, None)
       IN  IF conflicting # {}
           THEN /\ lastTurn' = TaskConflictTurn("taskCreate", reqs[r].userId, conflicting)
                /\ reqs' = [reqs EXCEPT ![r] = Idle]
           ELSE /\ reqs' = [reqs EXCEPT ![r].pc = "taskCreateWrite"]
                /\ UNCHANGED lastTurn
    /\ UNCHANGED <<resources, sessionStore>>

\* createTask, and the response.
TaskCreateWrite(r) ==
    /\ reqs[r].pc = "taskCreateWrite"
    /\ tasks' = Append(tasks,
           CreateTask(tasks,
               [goalId |-> reqs[r].milestone.goalId,
                milestoneId |-> reqs[r].milestone.id,
                userId |-> reqs[r].userId, date |-> reqs[r].taskDate,
                estimatedHours |-> reqs[r].hours]))
    /\ lastTurn' = ResourceTurn("taskCreate", 201, reqs[r].userId)
    /\ reqs' = [reqs EXCEPT ![r] = Idle]
    /\ UNCHANGED <<users, goals, milestones, sessionStore>>

(***************************************************************************)
(* PATCH /v1/tasks/:taskId                                                 *)
(***************************************************************************)
\* The validation that follows the date: estimatedHours, then hasUpdate.
TaskPatchRestStatus(body) ==
    IF body.estimatedHours # None /\ ~IsNonNegativeNumber(body.estimatedHours[1])
    THEN 400
    ELSE IF body.date = None /\ body.estimatedHours = None THEN 400
    ELSE 200

\* assertOwnedTask and the validation of the body up to the date.
TaskPatchFind(seq, r, u, taskId, body) ==
    /\ MayStart(seq, r)
    /\ LET owned == OwnedTaskStatus(tasks, milestones, goals, taskId, u)
           newDate == ValidateIsoDate(body.date)
           status == IF owned # 200 THEN owned
                     ELSE IF body.date # None
                     THEN (IF newDate = None THEN 400 ELSE 200)
                     ELSE TaskPatchRestStatus(body)
       IN  IF status # 200
           THEN /\ lastTurn' = ResourceTurn("taskPatch", status, u)
                /\ UNCHANGED reqs
           ELSE /\ reqs' = [reqs EXCEPT ![r] =
                               [pc |-> IF body.date # None THEN "taskPatchCheck"
                                       ELSE "taskPatchWrite",
                                op |-> "taskPatch", userId |-> u,
                                task |-> tasks[taskId],
                                milestone |-> milestones[tasks[taskId].milestoneId],
                                body |-> body,
                                updates |-> [date |-> newDate,
                                             estimatedHours |-> body.estimatedHours]]]
                /\ lastTurn' = NoTurn
    /\ UNCHANGED <<resources, sessionStore>>

\* ensureNoTaskConflict with the task itself excluded, then the rest of the
\* validation.
TaskPatchCheck(r) ==
    /\ reqs[r].pc = "taskPatchCheck"
    /\ LET conflicting == ConflictingTaskIds(tasks, reqs[r].milestone.id,
                              reqs[r].userId, reqs[r].updates.date[1],
                              Some(reqs[r].task.id))
           status == IF conflicting # {} THEN 409
                     ELSE TaskPatchRestStatus(reqs[r].body)
       IN  IF status # 200
           THEN /\ lastTurn' = IF conflicting # {}
                                THEN TaskConflictTurn("taskPatch", reqs[r].userId,
                                                      conflicting)
                                ELSE ResourceTurn("taskPatch", status, reqs[r].userId)
                /\ reqs' = [reqs EXCEPT ![r] = Idle]
           ELSE /\ reqs' = [reqs EXCEPT ![r].pc = "taskPatchWrite"]
                /\ UNCHANGED lastTurn
    /\ UNCHANGED <<resources, sessionStore>>

\* updateTask, and the response.
TaskPatchWrite(r) ==
    /\ reqs[r].pc = "taskPatchWrite"
    /\ tasks' = [tasks EXCEPT ![reqs[r].task.id] = UpdateTask(@, reqs[r].updates)]
    /\ lastTurn' = ResourceTurn("taskPatch", 200, reqs[r].userId)
    /\ reqs' = [reqs EXCEPT ![r] = Idle]
    /\ UNCHANGED <<users, goals, milestones, sessionStore>>

(***************************************************************************)
(* Specification of the milestone and task mutations, executed one at a    *)
(* time, over goals created with valid bodies.                             *)
(***************************************************************************)
MilestoneIds == 1..MaxMilestones

TaskIds == 1..MaxTasks

Days == 1..MaxDay

PlainGoalBodies == [title : {"goal"}, minHoursPerWeek : {10}]

MilestoneBodies == [title : {"", "milestone"}, parentMilestoneId : Opt(MilestoneIds)]

TaskHours == {-1, 2}

TaskCreateBodies ==
    [title : {"task"}, date : Opt(DateInputs(Days)), estimatedHours : {2}]
        \cup [title : {"", "task"}, date : {Some([kind |-> "iso", day |-> 1, shift |-> 0])},
              estimatedHours : TaskHours]

TaskPatchBodies == [date : Opt(DateInputs(Days)), estimatedHours : Opt(TaskHours)]

TaskStart(seq) ==
    \E r \in Slots, u \in Users :
        \/ \E body \in PlainGoalBodies : GoalCreateFind(seq, r, u, body)
        \/ \E goalId \in GoalIds, body \in MilestoneBodies :
                MilestoneCreateFind(seq, r, u, goalId, body)
        \/ \E milestoneId \in MilestoneIds, body \in TaskCreateBodies :
                TaskCreateFind(seq, r, u, milestoneId, body)
        \/ \E taskId \in TaskIds, body \in TaskPatchBodies :
                TaskPatchFind(seq, r, u, taskId, body)

TaskStep ==
    \E r \in Slots :
        \/ GoalCreateSum(r)
        \/ GoalCreateWrite(r)
        \/ MilestoneCreateParent(r)
        \/ MilestoneCreateWrite(r)
        \/ TaskCreateCheck(r)
        \/ TaskCreateWrite(r)
        \/ TaskPatchCheck(r)
        \/ TaskPatchWrite(r)

TaskNext == TaskStart(TRUE) \/ TaskStep

TaskSpec == Init /\ [][TaskNext]_vars

(***************************************************************************)
(* Properties of the task mutations.                                       *)
(***************************************************************************)
\* C2 (one task per day per milestone).  With requests executed one at a
\* time, in every state, and so after every successful POST
\* /v1/milestones/:milestoneId/tasks and PATCH /v1/tasks/:taskId, no two
\* distinct tasks under the same milestone have the same date.
C2_OneTaskPerDay ==
    \A i, j \in 1..Len(tasks) :
        i # j /\ tasks[i].milestoneId = tasks[j].milestoneId
            => tasks[i].date # tasks[j].date

\* A task has been moved to another day by a successful PATCH while its
\* milestone holds a second task.
C2_Witness ==
    /\ Succeeded(lastTurn)
    /\ lastTurn.op = "taskPatch"
    /\ \E i, j \in 1..Len(tasks) :
          /\ i # j
          /\ tasks[i].milestoneId = tasks[j].milestoneId
          /\ tasks[i].date > tasks[j].date
          /\ tasks[i].id < tasks[j].id

\* The ids of the tasks of milestone m and user u dated d, other than the
\* excluded ones.
CollidingTasks(m, u, d, excluded) ==
    {tasks[i].id : i \in {j \in 1..Len(tasks) : /\ tasks[j].milestoneId = m
                                                /\ tasks[j].userId = u
                                                /\ tasks[j].date = d
                                                /\ tasks[j].id \notin excluded}}

\* C19 (date-conflict rejection).  With requests executed one at a time,
\* the date check of a task creation, and of a task update that carries a
\* date, answers 409 exactly when another task of the same milestone and
\* user holds the date; the 409 carries as conflictingTaskIds exactly the
\* ids of those tasks, and nothing is written.  The task being updated is
\* not counted, so its own current date never conflicts with itself.
C19_DateConflict ==
    [][\A r \in Slots :
          /\ reqs[r].pc = "taskCreateCheck" /\ reqs'[r] # reqs[r]
                => LET colliding == CollidingTasks(reqs[r].milestone.id, reqs[r].userId,
                                                   reqs[r].taskDate, {})
                   IN  IF colliding # {}
                       THEN /\ lastTurn' = TaskConflictTurn("taskCreate", reqs[r].userId,
                                                            colliding)
                            /\ reqs'[r].pc = "idle"
                            /\ UNCHANGED resources
                       ELSE /\ reqs'[r].pc = "taskCreateWrite"
                            /\ lastTurn' = lastTurn
          /\ reqs[r].pc = "taskPatchCheck" /\ reqs'[r] # reqs[r]
                => LET colliding == CollidingTasks(reqs[r].milestone.id, reqs[r].userId,
                                                   reqs[r].updates.date[1],
                                                   {reqs[r].task.id})
                   IN  IF colliding # {}
                       THEN /\ lastTurn' = TaskConflictTurn("taskPatch", reqs[r].userId,
                                                            colliding)
                            /\ reqs'[r].pc = "idle"
                            /\ UNCHANGED resources
                       ELSE /\ ~Rejected(lastTurn', 409)
                            /\ UNCHANGED resources]_vars

\* A task has been refused the date that the other task of its milestone
\* holds: 409 naming that task.
C19_Witness ==
    /\ lastTurn = TaskConflictTurn("taskPatch", "u1", {1})
    /\ Len(tasks) = 2
    /\ tasks[1].milestoneId = tasks[2].milestoneId
    /\ tasks[1].date # tasks[2].date

\* The tasks of user u dated d under a milestone other than m.
TasksElsewhere(m, u, d) ==
    {i \in 1..Len(tasks) : /\ tasks[i].milestoneId # m
                           /\ tasks[i].userId = u
                           /\ tasks[i].date = d}

\* C28 (the date-conflict rule is milestone-scoped).  With requests executed
\* one at a time, the date check of a task creation or of a re-dating whose
\* milestone holds no other task on the date passes, also when tasks of the
\* same user under another milestone, of the same or of another goal, hold
\* that date: no 409 is answered.
C28_MilestoneScoped ==
    [][\A r \in Slots :
          /\ (/\ reqs[r].pc = "taskCreateCheck"
              /\ reqs'[r] # reqs[r]
              /\ TasksElsewhere(reqs[r].milestone.id, reqs[r].userId, reqs[r].taskDate) # {}
              /\ CollidingTasks(reqs[r].milestone.id, reqs[r].userId,
                                reqs[r].taskDate, {}) = {})
                => /\ reqs'[r].pc = "taskCreateWrite"
                   /\ lastTurn' = lastTurn
          /\ (/\ reqs[r].pc = "taskPatchCheck"
              /\ reqs'[r] # reqs[r]
              /\ TasksElsewhere(reqs[r].milestone.id, reqs[r].userId,
                                reqs[r].updates.date[1]) # {}
              /\ CollidingTasks(reqs[r].milestone.id, reqs[r].userId,
                                reqs[r].updates.date[1], {reqs[r].task.id}) = {})
                => ~Rejected(lastTurn', 409)]_vars

\* A task has been moved by a successful PATCH to the date that a task of
\* the same user under another milestone holds.
C28_Witness ==
    /\ lastTurn = ResourceTurn("taskPatch", 200, "u1")
    /\ Len(tasks) = 2
    /\ tasks[1].userId = tasks[2].userId
    /\ tasks[1].milestoneId # tasks[2].milestoneId
    /\ tasks[1].date = tasks[2].date

(***************************************************************************)
(* Task creations of one user interleaved at store-operation granularity,  *)
(* over goals and milestones created one at a time.                        *)
(***************************************************************************)
RaceMilestoneBodies == [title : {"milestone"}, parentMilestoneId : Opt({1})]

RaceTaskBodies ==
    [title : {"task"}, date : {Some(d) : d \in DateInputs(Days)}, estimatedHours : {2}]

TaskRaceNext ==
    \/ \E r \in Slots, u \in Planners :
          \/ \E body \in PlainGoalBodies : GoalCreateFind(TRUE, r, u, body)
          \/ \E goalId \in GoalIds, body \in RaceMilestoneBodies :
                  MilestoneCreateFind(TRUE, r, u, goalId, body)
          \/ \E milestoneId \in MilestoneIds, body \in RaceTaskBodies :
                  TaskCreateFind(FALSE, r, u, milestoneId, body)
    \/ \E r \in Slots :
          \/ GoalCreateSum(r)
          \/ GoalCreateWrite(r)
          \/ MilestoneCreateParent(r)
          \/ MilestoneCreateWrite(r)
          \/ TaskCreateCheck(r)
          \/ TaskCreateWrite(r)

TaskRaceSpec == Init /\ [][TaskRaceNext]_vars

\* The tasks of milestone m dated d.
TasksOn(m, d) == {i \in 1..Len(tasks) : tasks[i].milestoneId = m /\ tasks[i].date = d}

\* C16 (documented date race).  With task creations interleaved, a request
\* comes to its write only through the date-conflict check, taken when no
\* task of its milestone had its date; and a step after which two tasks of
\* one milestone share a date is the write of such a request, made when a
\* task with its date had been committed to its milestone after its check.
\* The state the claim names is C16_Witness.
C16_CollisionByStaleCheck ==
    [][/\ \A r \in Slots :
             reqs'[r].pc = "taskCreateWrite" /\ reqs[r].pc # "taskCreateWrite"
                 => /\ reqs[r].pc = "taskCreateCheck"
                    /\ TasksOn(reqs[r].milestone.id, reqs[r].taskDate) = {}
       /\ C2_OneTaskPerDay /\ ~C2_OneTaskPerDay'
             => \E r \in Slots :
                   /\ reqs[r].pc = "taskCreateWrite"
                   /\ reqs'[r].pc = "idle"
                   /\ lastTurn' = ResourceTurn("taskCreate", 201, reqs[r].userId)
                   /\ TasksOn(reqs[r].milestone.id, reqs[r].taskDate) # {}]_vars

\* Two task creations for one milestone and one date have both been
\* answered 201 and both tasks are stored.
C16_Witness ==
    /\ lastTurn = ResourceTurn("taskCreate", 201, "u1")
    /\ \A r \in Slots : reqs[r].pc = "idle"
    /\ Len(tasks) = 2
    /\ tasks[1].milestoneId = tasks[2].milestoneId
    /\ tasks[1].date = tasks[2].date
    /\ tasks[1].userId = tasks[2].userId

(***************************************************************************)
(* Goal and milestone routes of all users, requests interleaved.           *)
(***************************************************************************)
NamedMilestoneBodies == [title : {"milestone"}, parentMilestoneId : Opt(MilestoneIds)]

\* Bodies of PATCH /v1/milestones/:milestoneId; goalId and parentMilestoneId
\* are fields a client may send although the route does not read them.
MilestonePatchBodies ==
    [title : Opt({"", "renamed"}), status : Opt({"finished", "bogus"}),
     goalId : {None}, parentMilestoneId : {None}]
        \cup [title : {None}, status : {Some("finished")},
              goalId : Opt(GoalIds), parentMilestoneId : Opt(MilestoneIds)]

MilestoneStart ==
    \E r \in Slots, u \in Users :
        \/ \E body \in PlainGoalBodies : GoalCreateFind(FALSE, r, u, body)
        \/ \E goalId \in GoalIds, body \in NamedMilestoneBodies :
                MilestoneCreateFind(FALSE, r, u, goalId, body)
        \/ \E milestoneId \in MilestoneIds, body \in MilestonePatchBodies :
                MilestonePatchFind(FALSE, r, u, milestoneId, body)

MilestoneStep ==
    \E r \in Slots :
        \/ GoalCreateSum(r)
        \/ GoalCreateWrite(r)
        \/ MilestoneCreateParent(r)
        \/ MilestoneCreateWrite(r)
        \/ MilestonePatchWrite(r)

MilestoneNext == MilestoneStart \/ MilestoneStep

MilestoneSpec == Init /\ [][MilestoneNext]_vars

\* Every parent named by a milestone exists and belongs to the same goal.
ParentsHold ==
    \A i \in 1..Len(milestones) :
        milestones[i].parentMilestoneId # None
            => /\ milestones[i].parentMilestoneId[1] \in 1..Len(milestones)
               /\ milestones[milestones[i].parentMilestoneId[1]].goalId
                      = milestones[i].goalId

\* C25 (milestone parent).  In every reachable state every milestone with a
\* parentMilestoneId references an existing milestone of the same goal; a
\* creation whose parent is missing or belongs to another goal is rejected
\* and writes nothing; and no step changes the goalId or parentMilestoneId
\* of a stored milestone.
C25_MilestoneParent ==
    /\ []ParentsHold
    /\ [][/\ \A i \in 1..Len(milestones) :
                /\ i <= Len(milestones')
                /\ milestones'[i].goalId = milestones[i].goalId
                /\ milestones'[i].parentMilestoneId = milestones[i].parentMilestoneId
          /\ \A r \in Slots :
                (/\ reqs[r].pc = "milestoneParent"
                 /\ reqs'[r] # reqs[r]
                 /\ LET parent == reqs[r].body.parentMilestoneId[1]
                    IN  \/ parent \notin 1..Len(milestones)
                        \/ milestones[parent].goalId # reqs[r].goal.id)
                    => /\ lastTurn'.op = "milestoneCreate"
                       /\ lastTurn'.status \in {400, 403, 404}
                       /\ reqs'[r] = Idle
                       /\ milestones' = milestones]_vars

\* A child milestone exists under a parent of its goal, and the parent has
\* been updated by a PATCH since.
C25_Witness ==
    /\ Len(milestones) = 2
    /\ milestones[2].parentMilestoneId = Some(1)
    /\ milestones[2].goalId = milestones[1].goalId
    /\ milestones[1].status = "finished"
    /\ lastTurn = ResourceTurn("milestonePatch", 200, "u1")

(***************************************************************************)
(* buildUserContext over stored goals and tasks.  GET session:latest of a  *)
(* user without an active session builds the context and stores it in the  *)
(* new session; the goals and tasks are those earlier requests (one at a   *)
(* time or interleaved, and PATCH /v1/tasks for `done`) have left behind.  *)
(***************************************************************************)
MaxContextTasks == 2

\* Days on both sides of the two ends of the window.
ContextDays ==
    {Today - 1, Today, Today + UPCOMING_DAYS - 1, Today + UPCOMING_DAYS,
     Today + UPCOMING_DAYS + 1}

ContextGoalHours == 15

\* Stored goals: of either user, active or paused.
ContextGoals ==
    UNION {{[i \in 1..n |-> [id |-> i, userId |-> f[i].userId, status |-> f[i].status,
                             minHoursPerWeek |-> ContextGoalHours]] :
                f \in [1..n -> [userId : Users, status : {"active", "paused"}]]} :
           n \in 0..MaxGoals}

\* One top-level milestone per goal.
ContextMilestones(gs) ==
    [i \in 1..Len(gs) |-> [id |-> i, goalId |-> i, parentMilestoneId |-> None,
                            title |-> "milestone", status |-> NewMilestoneStatus]]

\* Stored tasks under those milestones, owned by the goal's user.
ContextTasks(gs) ==
    UNION {{[i \in 1..n |-> [id |-> i, goalId |-> f[i].goalId, milestoneId |-> f[i].goalId,
                             userId |-> gs[f[i].goalId].userId, date |-> f[i].date,
                             estimatedHours |-> 2, done |-> f[i].done]] :
                f \in [1..n -> [goalId : 1..Len(gs), date : ContextDays, done : BOOLEAN]]} :
           n \in 0..MaxContextTasks}

ContextInit ==
    /\ users = [u \in Users |->
                    [name |-> "", availableHoursPerWeek |-> DEFAULT_AVAILABLE_HOURS]]
    /\ goals \in ContextGoals
    /\ milestones = ContextMilestones(goals)
    /\ tasks \in ContextTasks(goals)
    /\ sessions = <<>>
    /\ updatedOrder = <<>>
    /\ chats = <<>>
    /\ chatMessages = <<>>
    /\ previews = {}
    /\ reqs = [r \in Slots |-> Idle]
    /\ lastTurn = NoTurn

ContextNext ==
    \E r \in Slots :
        \/ \E u \in Users : LatestFind(TRUE, r, u)
        \/ LatestContext(r)
        \/ LatestCreate(r)

ContextSpec == ContextInit /\ [][ContextNext]_vars

\* The indices of the active goals of a user, and the sum of their hours.
ActiveGoalsOf(u) ==
    {i \in 1..Len(goals) : goals[i].userId = u /\ goals[i].status = "active"}

RECURSIVE HoursOf(_)
HoursOf(S) ==
    IF S = {} THEN 0
    ELSE LET i == CHOOSE j \in S : TRUE
         IN  goals[i].minHoursPerWeek + HoursOf(S \ {i})

\* C22: the context built for a user holds availableHoursLeft = max(0,
\* availableHoursPerWeek - sum of minHoursPerWeek of the user's active goals),
\* which is never negative, also when the active sum exceeds the weekly hours.
C22_AvailableHoursLeft ==
    \A s \in 1..Len(sessions) :
        LET u == sessions[s].userId
            left == users[u].availableHoursPerWeek - HoursOf(ActiveGoalsOf(u))
        IN  /\ sessions[s].context.availableHoursLeft >= 0
            /\ left >= 0 => sessions[s].context.availableHoursLeft = left
            /\ left < 0 => sessions[s].context.availableHoursLeft = 0

C22_Witness ==
    /\ Len(sessions) >= 1
    /\ sessions[1].userId = "u1"
    /\ HoursOf(ActiveGoalsOf("u1")) > users["u1"].availableHoursPerWeek
    /\ sessions[1].context.availableHoursLeft = 0

\* The tasks of user u that are not done and dated from Today to lastDay.
PendingTasksOf(u, lastDay) ==
    {i \in 1..Len(tasks) : /\ tasks[i].userId = u
                           /\ ~tasks[i].done
                           /\ Today <= tasks[i].date
                           /\ tasks[i].date <= lastDay}

\* up lists exactly the tasks `wanted`, by date ascending, ties in stored order.
ListsByDate(up, wanted) ==
    /\ Len(up) = Cardinality(wanted)
    /\ {up[k].id : k \in 1..Len(up)} = wanted
    /\ \A j, k \in 1..Len(up) :
           j < k => \/ up[j].date < up[k].date
                    \/ up[j].date = up[k].date /\ up[j].id < up[k].id

\* C23: the context built for a user lists as upcomingTasks exactly the
\* user's tasks that are not done and dated d with today <= d < today + 7
\* days (the day today + 7 excluded), by date ascending, ties in input order.
C23_UpcomingTasks ==
    \A s \in 1..Len(sessions) :
        ListsByDate(sessions[s].context.upcomingTasks,
                    PendingTasksOf(sessions[s].userId, Today + UPCOMING_DAYS - 1))

(***************************************************************************)
(* The error middleware.  A thrown value is an ApiError or anything else;  *)
(* `details` is None when the property is undefined.  A value that is not  *)
(* an ApiError may still carry a status, a message and details of its own. *)
(***************************************************************************)
ThrownValues ==
    LET statuses == {400, 401, 403, 404, 409, 500, 502, 503}
        messages == {"Unauthorized", "Invalid title.", "Session not found.",
                     "connect ECONNREFUSED"}
        details == {"null", "conflictingTaskIds"}
    IN  [isApiError : {TRUE}, status : {Some(st) : st \in statuses},
         message : messages, details : Opt(details)]
            \cup [isApiError : {FALSE}, status : Opt({400, 503}),
                  message : messages, details : Opt(details)]

\* A faulty variant of ErrorMiddleware that answers any thrown value with
\* its own message; the error-boundary property must tell it from the real
\* one.
ErrorMiddlewareLeaking(err) ==
    LET status == IF err.isApiError THEN err.status[1] ELSE 500
        error == [code |-> status, message |-> err.message]
    IN  [status |-> status,
         body |-> [error |-> IF err.isApiError /\ err.details # None
                             THEN [code |-> status, message |-> err.message,
                                   details |-> err.details[1]]
                             ELSE error]]

\* app.use((err, req, res, next) => ...): the response sent.
ErrorMiddleware(err) ==
    IF err.isApiError
    THEN [status |-> err.status[1],
          body |-> [error |-> IF err.details # None
                              THEN [code |-> err.status[1], message |-> err.message,
                                    details |-> err.details[1]]
                              ELSE [code |-> err.status[1], message |-> err.message]]]
    ELSE [status |-> 500,
          body |-> [error |-> [code |-> 500, message |-> "Internal server error."]]]

\* catch (error) { next(error) } in a route handler.
RouteThrows(err) ==
    /\ lastTurn' = [op |-> "error", thrown |-> err, response |-> ErrorMiddleware(err)]
    /\ UNCHANGED <<resources, sessionStore, reqs>>

ErrorNext == \E err \in ThrownValues : RouteThrows(err)

ErrorSpec == Init /\ [][ErrorNext]_vars

\* C29 (error boundary).  An ApiError is answered with its status and the
\* body {error: {code, message}} of its status and message, with details
\* exactly when the error carries details; any other thrown value is
\* answered with 500 and the generic body, whatever message, status or
\* details it carries.
C29_ErrorBoundary ==
    lastTurn.op = "error"
        => LET err == lastTurn.thrown
               res == lastTurn.response
           IN  /\ DOMAIN res.body = {"error"}
               /\ err.isApiError
                     => /\ res.status = err.status[1]
                        /\ res.body.error.code = err.status[1]
                        /\ res.body.error.message = err.message
                        /\ err.details = None
                              => DOMAIN res.body.error = {"code", "message"}
                        /\ err.details # None
                              => /\ DOMAIN res.body.error = {"code", "message", "details"}
                                 /\ res.body.error.details = err.details[1]
               /\ ~err.isApiError
                     => /\ res.status = 500
                        /\ DOMAIN res.body.error = {"code", "message"}
                        /\ res.body.error.code = 500
                        /\ res.body.error.message = "Internal server error."

\* A value that is not an ApiError and carries a status, a message and
\* details of its own has been answered with the generic 500.
C29_Witness ==
    /\ lastTurn.op = "error"
    /\ ~lastTurn.thrown.isApiError
    /\ lastTurn.thrown.status = Some(400)
    /\ lastTurn.thrown.message = "connect ECONNREFUSED"
    /\ lastTurn.thrown.details = Some("conflictingTaskIds")
    /\ lastTurn.response.status = 500
    /\ lastTurn.response.body.error.message = "Internal server error."

(***************************************************************************)
(* GET session:latest requests of one user interleaved at store-operation  *)
(* granularity, with the session:message turns executed one at a time.     *)
(***************************************************************************)
LatestRaceNext ==
    \/ \E r \in Slots, u \in Planners :
          \/ LatestFind(FALSE, r, u)
          \/ \E b \in PlainBodies :
                  MessageLoad(TRUE, r, u, b.sessionId, b.message, b.payloadUserId,
                              b.override)
    \/ SessionStep(FALSE, AgentAnswers(MaxAnswerFields))

LatestRaceSpec == Init /\ [][LatestRaceNext]_vars

\* C31 (creation race of GET session:latest).  With session:latest requests
\* interleaved, a request starts a creation only after it has observed that
\* its user has no active session; and a step after which a user has two
\* active sessions is the createSession of such a request, answered 201 and
\* made when a session of the user had become active after its observation.
\* The state the claim names is C31_Witness.
C31_CreationByStaleObservation ==
    [][/\ \A r \in Slots :
             reqs'[r].pc = "latestContext" /\ reqs[r].pc # "latestContext"
                 => /\ reqs[r].pc = "idle"
                    /\ ActiveSessionsOf(reqs'[r].userId) = {}
       /\ \A u \in Users :
             (Cardinality(ActiveSessionsOf(u)) <= 1
                  /\ Cardinality(ActiveSessionsOf(u)') >= 2)
                 => \E r \in Slots :
                       /\ reqs[r].pc = "latestCreate"
                       /\ reqs[r].userId = u
                       /\ reqs'[r] = Idle
                       /\ lastTurn' = LatestTurn(201, u, Len(sessions'))
                       /\ ActiveSessionsOf(u) # {}]_vars

\* Two session:latest requests of one user have both been answered 201 and
\* both new sessions are stored, active and untouched by any turn.
C31_Witness ==
    /\ lastTurn = LatestTurn(201, "u1", 2)
    /\ \A r \in Slots : reqs[r].pc = "idle"
    /\ Len(sessions) = 2
    /\ \A s \in {1, 2} : /\ sessions[s].userId = "u1"
                         /\ sessions[s].sessionActive
                         /\ sessions[s].iteration = 0
    /\ chatMessages = <<>>

(***************************************************************************)
(* Goals that are not active, under the budget checks.                     *)
(***************************************************************************)
\* C34 (only active goals count).  With requests executed one at a time: the
\* sum every budget check reads is the sum of the hours of the user's active
\* goals, with or without an excluded goal; a PATCH /v1/goals/:goalId whose
\* resulting status is not 'active' goes to its write without a budget check
\* and is answered 200 whatever minHoursPerWeek it sets; a PATCH whose
\* resulting status is 'active' is checked with the hours of the body, or
\* the goal's stored hours when the body has none, plus the hours of the
\* user's other active goals, and is answered 409 exactly when that total
\* exceeds availableHoursPerWeek.
C34_ActiveGoalsOnly ==
    /\ [](\A u \in Users :
             /\ SumActiveGoalHours(goals, u, None) = HoursOf(ActiveGoalsOf(u))
             /\ \A g \in 1..Len(goals) :
                   SumActiveGoalHours(goals, u, Some(g)) = HoursOf(ActiveGoalsOf(u) \ {g}))
    /\ [][/\ \A r \in Slots :
                reqs[r].pc = "goalPatchUser" /\ reqs'[r] # reqs[r]
                    => LET stored == goals[reqs[r].goal.id]
                       IN  IF OrElse(reqs[r].updates.status, stored.status) = "active"
                           THEN reqs'[r].pc = "goalPatchSum"
                           ELSE reqs'[r].pc = "goalPatchWrite"
          /\ \A r \in Slots :
                reqs[r].pc = "goalPatchSum" /\ reqs'[r] # reqs[r]
                    => LET u == reqs[r].userId
                           stored == goals[reqs[r].goal.id]
                           hours == OrElse(reqs[r].updates.minHoursPerWeek,
                                           stored.minHoursPerWeek)
                           total == HoursOf(ActiveGoalsOf(u) \ {stored.id}) + hours
                       IN  IF total > users[u].availableHoursPerWeek
                           THEN /\ Rejected(lastTurn', 409)
                                /\ lastTurn'.details.requiredHoursPerWeek = total
                                /\ reqs'[r].pc = "idle"
                                /\ UNCHANGED resources
                           ELSE /\ reqs'[r].pc = "goalPatchWrite"
                                /\ lastTurn' = lastTurn
          /\ \A r \in Slots :
                reqs[r].pc = "goalPatchWrite" /\ reqs'[r] # reqs[r]
                    => LET g == reqs[r].goal.id
                       IN  /\ lastTurn' = ResourceTurn("goalPatch", 200, reqs[r].userId)
                           /\ goals'[g].status = OrElse(reqs[r].updates.status, goals[g].status)
                           /\ goals'[g].minHoursPerWeek
                                 = OrElse(reqs[r].updates.minHoursPerWeek,
                                          goals[g].minHoursPerWeek)
          /\ (lastTurn' # lastTurn /\ lastTurn'.op = "goalPatch" /\ lastTurn'.status = 409)
                => \E r \in Slots :
                      /\ reqs[r].pc = "goalPatchSum"
                      /\ reqs'[r].pc = "idle"
                      /\ OrElse(reqs[r].updates.status, goals[reqs[r].goal.id].status)
                            = "active"]_vars

\* A user lowered the available hours to 10 with one active goal of 10 hours
\* and one paused goal; the active goal was then paused with 15 hours by one
\* PATCH, and a later PATCH setting only its status to 'active' is answered
\* 409 with requiredHoursPerWeek 15: the stored hours, nothing for the other
\* paused goal.
C34_Witness ==
    /\ lastTurn = BudgetConflictTurn("goalPatch", "u1", 10, 15,
                                     <<[goalId |-> 1, weeklyHours |-> 15]>>)
    /\ Len(goals) = 2
    /\ \A g \in 1..2 : goals[g].userId = "u1" /\ goals[g].status = "paused"
    /\ goals[1].minHoursPerWeek = 15
    /\ goals[2].minHoursPerWeek = 10
    /\ users["u1"].availableHoursPerWeek = 10

(***************************************************************************)
(* PATCH /v1/me interleaved with the goal mutations.                       *)
(***************************************************************************)
\* The requests of one user, with bodies that pass the validation of the
\* hours and of the status.
HoursRaceNext ==
    \/ \E r \in Slots, u \in Planners :
          \/ \E body \in ValidGoalBodies : GoalCreateFind(FALSE, r, u, body)
          \/ \E goalId \in GoalIds,
                body \in [status : Opt({"active", "paused"}),
                          minHoursPerWeek : Opt({15})] :
                  GoalPatchFind(FALSE, r, u, goalId, body)
          \/ \E body \in [name : {None}, availableHoursPerWeek : {Some(10)}] :
                  MePatchFind(FALSE, r, u, body)
    \/ BudgetStep

HoursRaceSpec == Init /\ [][HoursRaceNext]_vars

\* The request in slot r is about to write and what it read is no longer
\* what is stored: the user's available hours are below the ones it read,
\* the goal it patches is not as it loaded it, or the active hours that its
\* write leaves, on the goals stored now, are above the ones it checked.
ReadIsStale(r) ==
    LET u == reqs[r].userId
    IN  \/ /\ reqs[r].pc = "goalCreateWrite"
           /\ \/ reqs[r].user.availableHoursPerWeek > users[u].availableHoursPerWeek
              \/ reqs[r].totalHours
                    < HoursOf(ActiveGoalsOf(u)) + reqs[r].body.minHoursPerWeek
        \/ /\ reqs[r].pc = "goalPatchWrite"
           /\ \/ reqs[r].user.availableHoursPerWeek > users[u].availableHoursPerWeek
              \/ reqs[r].goal # goals[reqs[r].goal.id]
              \/ /\ OrElse(reqs[r].updates.status, reqs[r].goal.status) = "active"
                 /\ HoursOf(ActiveGoalsOf(u) \ {reqs[r].goal.id})
                       + OrElse(reqs[r].updates.minHoursPerWeek,
                                reqs[r].goal.minHoursPerWeek)
                       > reqs[r].user.availableHoursPerWeek
        \/ /\ reqs[r].pc = "mePatchWrite"
           /\ reqs[r].updates.availableHoursPerWeek # None
           /\ reqs[r].updates.availableHoursPerWeek[1] < HoursOf(ActiveGoalsOf(u))

\* C37 (PATCH /v1/me against the goal mutations), with the requests
\* interleaved.  A request goes from its budget check to its write only when
\* the check passes on the values it read: for PATCH /v1/me the new
\* availableHoursPerWeek is at least the active hours stored at the check,
\* for POST /v1/goals and an activating PATCH /v1/goals/:goalId the active
\* hours stored at the check plus the goal's hours are at most the
\* availableHoursPerWeek of the user record the request read.  A step that
\* takes a user's active hours above the available ones is the successful
\* write of a request of that user, and what the request read is stale at
\* that step: the user or the goal it loaded has been written since, or the
\* active hours have grown since its check.  The state the claim names is
\* C37_Witness.
C37_OvershootByStaleCheck ==
    [][/\ \A r \in Slots :
             /\ reqs[r].pc = "mePatchSum" /\ reqs'[r].pc = "mePatchWrite"
                   => reqs[r].updates.availableHoursPerWeek[1]
                         >= HoursOf(ActiveGoalsOf(reqs[r].userId))
             /\ reqs[r].pc = "goalCreateSum" /\ reqs'[r].pc = "goalCreateWrite"
                   => HoursOf(ActiveGoalsOf(reqs[r].userId)) + reqs[r].body.minHoursPerWeek
                         <= reqs[r].user.availableHoursPerWeek
             /\ reqs[r].pc = "goalPatchSum" /\ reqs'[r].pc = "goalPatchWrite"
                   => HoursOf(ActiveGoalsOf(reqs[r].userId) \ {reqs[r].goal.id})
                         + OrElse(reqs[r].updates.minHoursPerWeek,
                                  reqs[r].goal.minHoursPerWeek)
                         <= reqs[r].user.availableHoursPerWeek
       /\ \A u \in Users :
             BudgetHolds(u) /\ ~BudgetHolds(u)'
                 => \E r \in Slots :
                       /\ reqs[r].pc \in {"goalCreateWrite", "goalPatchWrite", "mePatchWrite"}
                       /\ reqs[r].userId = u
                       /\ reqs'[r].pc = "idle"
                       /\ Succeeded(lastTurn')
                       /\ lastTurn'.userId = u
                       /\ ReadIsStale(r)]_vars

\* POST /v1/goals with 15 hours read the user at 20 available hours; PATCH
\* /v1/me then lowered the hours to 10 with no active goal stored, and both
\* have committed: 15 active hours against 10 available.
C37_Witness ==
    /\ lastTurn = ResourceTurn("goalCreate", 201, "u1")
    /\ \A r \in Slots : reqs[r].pc = "idle"
    /\ Len(goals) = 1
    /\ goals[1].userId = "u1"
    /\ goals[1].status = "active"
    /\ goals[1].minHoursPerWeek = 15
    /\ users["u1"].availableHoursPerWeek = 10

=============================================================================
